---- MODULE Spec2Model ----
(***************************************************************************)
(* Verification model of the IPTV gateway backend (web/backend/app).       *)
(*                                                                         *)
(* The module holds one state machine per subsystem; each has its own      *)
(* specification over the shared variables and leaves the other            *)
(* subsystems' variables unchanged:                                        *)
(*   SpecTranscoder  services/transcoder.py  TranscoderService             *)
(*   SpecStop        services/transcoder.py  stop_transcode and cleanup      *)
(*   SpecProxy       services/stream_proxy.py  proxy_manifest              *)
(*   SpecHealth      services/health_worker.py HealthWorker + store health *)
(*   SpecHealthRun   services/health_worker.py the loop of a worker never stopped *)
(*   SpecLocal       routers/streams.py  get_local_segment                 *)
(*   SpecCatalog     services/cache.py  channel / stream upserts           *)
(*   SpecImport      services/m3u_parser.py  M3U import next to the catalog *)
(*   SpecReimport    services/cache.py  imports over streams with health data *)
(*   SpecManifest    services/stream_proxy.py  _rewrite_manifest           *)
(*   SpecProbe       services/health_worker.py  _test_stream               *)
(*   SpecSegment     services/stream_proxy.py  proxy_segment               *)
(*   SpecBatch       services/health_worker.py  _process_batch probes       *)
(*   SpecPlay        routers/streams.py  get_stream_manifest, transcode path *)
(*   SpecKv          services/cache.py  get / set / clear_expired            *)
(*   SpecSync        routers/channels.py  trigger_sync (POST /api/sync)      *)
(*   SpecSyncAll     services/data_sync.py  sync_all on channels and streams  *)
(*   SpecMapper      services/epg_mapping.py  EPGMapper                      *)
(*   SpecEpg         services/epg_parser.py  parse_file into the programs table *)
(*   SpecBoot        services/health_worker.py  start / stop from several callers *)
(***************************************************************************)
EXTENDS Integers, Sequences, FiniteSets, TLC

VARIABLES
    \* ---- TranscoderService (services/transcoder.py)
    processes,      \* self._processes: stream_id -> pid, NoProc when the key is absent
    last_access,    \* self._last_access: stream_id -> time, NoAccess when absent
    live,           \* pids of remuxer processes whose returncode is None
    procStream,     \* pid -> the stream_id the process was spawned for (NoStream: not spawned)
    dirExists,      \* TRANSCODE_DIR/<stream_id> exists
    playlist,       \* pid whose index.m3u8 is in the directory, NoProc when no file
    calls,          \* one record per in-flight start_transcode call
    stops,          \* one record per in-flight stop_transcode or cleanup_stale_transcodes call
    tclock,         \* datetime.now() of the transcoder
    \* ---- StreamProxyService.proxy_manifest (services/stream_proxy.py), one request
    req,            \* the request's locals: pc, attempt, geo_bypass_attempted, outcome
    wire,           \* the upstream exchanges of the request, in order: <<kind, outcome>>
    \* ---- CacheService tables (services/cache.py)
    channels,       \* rows of the channels table (id is the primary key)
    streams,        \* rows of the streams table (id is the primary key)
    lastCall,       \* history: the latest CacheService write and the primary keys it wrote
    \* ---- HealthWorker (services/health_worker.py)
    hclock,         \* datetime.now() / datetime('now'), in hours
    running,        \* self._running
    task,           \* self._task: "none", "pending" or "done"
    cancel,         \* task.cancel() was called and CancelledError is not delivered yet
    life,           \* the start()/stop() call in progress: "idle", "start_load", "stop_await"
    worker,         \* the loop task: where it is suspended, its batch and probe results
    full_pass_complete, \* self._full_pass_complete
    snapshot,       \* the health_snapshot.json file
    written,        \* history: who wrote the snapshot last, and the loop's writes
    lastProbe,      \* history: the probe result the update loop handled last, and when
    caught,         \* history: the loop has caught an exception since start()
    \* ---- get_local_segment (routers/streams.py)
    fs,             \* the files under TRANSCODE_DIR, as absolute locations
    response,       \* the latest response of get_local_segment, with its request
    \* ---- StreamProxyService._rewrite_manifest (services/stream_proxy.py)
    rewrite,        \* the latest _rewrite_manifest call: its arguments and its result
    \* ---- HealthWorker._test_stream (services/health_worker.py), one call
    probe,          \* the call's position, the requests it sent and its return value
    \* ---- StreamProxyService.proxy_segment (services/stream_proxy.py), one request
    seg,            \* the request's position, its upstream requests and its response
    \* ---- HealthWorker._process_batch (services/health_worker.py): the probes of a batch
    gate,           \* the loop's position, the semaphore and the probes waiting, in flight and done
    \* ---- get_stream_manifest (routers/streams.py), one request on the transcode path
    play,           \* the request's position, its readiness checks, its response; the playlist file
    \* ---- CacheService.get / set / clear_expired (services/cache.py): the cache table
    kv,             \* the rows of the cache table, utcnow(), the latest set per key and the latest get
    \* ---- trigger_sync (routers/channels.py) with DataSyncService.sync_all, one request at a time
    sync,           \* the configured secret, the request's key and position, what it fetched and stored, its status
    \* ---- EPGMapper (services/epg_mapping.py): one map_channel_id or batch mapping call
    mapper,         \* the call's arguments (id, catalog, name index) and its result
    \* ---- EPGParser.parse_file with CacheService.store_epg_programs (services/epg_parser.py)
    epg,            \* the XMLTV file of the call, the call's position and the rows of the programs table
    \* ---- HealthWorker.start / stop called by several coroutines (services/health_worker.py)
    boot            \* _running, _task, the loop tasks, the calls in progress, the snapshot file

transcoderVars ==
    <<processes, last_access, live, procStream, dirExists, playlist, calls, stops, tclock>>

proxyVars == <<req, wire>>

storeVars == <<channels, streams, lastCall>>

healthVars ==
    <<hclock, running, task, cancel, life, worker, full_pass_complete, snapshot, written,
      lastProbe, caught>>

localVars == <<fs, response>>

manifestVars == <<rewrite>>

probeVars == <<probe>>

segmentVars == <<seg>>

batchVars == <<gate>>

playVars == <<play>>

kvVars == <<kv>>

syncVars == <<sync>>

mapperVars == <<mapper>>

epgVars == <<epg>>

bootVars == <<boot>>

vars == <<transcoderVars, proxyVars, storeVars, healthVars, localVars, manifestVars, probeVars, segmentVars, batchVars, playVars, kvVars, syncVars, mapperVars, epgVars, bootVars>>

\* What the actions of one subsystem leave alone: every other subsystem's state.
notTranscoder == <<proxyVars, storeVars, healthVars, localVars, manifestVars, probeVars, segmentVars, batchVars, playVars, kvVars, syncVars, mapperVars, epgVars, bootVars>>
notProxy == <<transcoderVars, storeVars, healthVars, localVars, manifestVars, probeVars, segmentVars, batchVars, playVars, kvVars, syncVars, mapperVars, epgVars, bootVars>>
notStore == <<transcoderVars, proxyVars, healthVars, localVars, manifestVars, probeVars, segmentVars, batchVars, playVars, kvVars, syncVars, mapperVars, epgVars, bootVars>>
\* The health worker writes the streams table.
notHealth == <<transcoderVars, proxyVars, channels, lastCall, localVars, manifestVars, probeVars, segmentVars, batchVars, playVars, kvVars, syncVars, mapperVars, epgVars, bootVars>>
notLocal == <<transcoderVars, proxyVars, storeVars, healthVars, manifestVars, probeVars, segmentVars, batchVars, playVars, kvVars, syncVars, mapperVars, epgVars, bootVars>>
notManifest == <<transcoderVars, proxyVars, storeVars, healthVars, localVars, probeVars, segmentVars, batchVars, playVars, kvVars, syncVars, mapperVars, epgVars, bootVars>>
notProbe == <<transcoderVars, proxyVars, storeVars, healthVars, localVars, manifestVars, segmentVars, batchVars, playVars, kvVars, syncVars, mapperVars, epgVars, bootVars>>
notSegment == <<transcoderVars, proxyVars, storeVars, healthVars, localVars, manifestVars, probeVars, batchVars, playVars, kvVars, syncVars, mapperVars, epgVars, bootVars>>
notBatch == <<transcoderVars, proxyVars, storeVars, healthVars, localVars, manifestVars, probeVars, segmentVars, playVars, kvVars, syncVars, mapperVars, epgVars, bootVars>>
notPlay == <<transcoderVars, proxyVars, storeVars, healthVars, localVars, manifestVars, probeVars, segmentVars, batchVars, kvVars, syncVars, mapperVars, epgVars, bootVars>>
notKv == <<transcoderVars, proxyVars, storeVars, healthVars, localVars, manifestVars, probeVars, segmentVars, batchVars, playVars, syncVars, mapperVars, epgVars, bootVars>>
notSync == <<transcoderVars, proxyVars, storeVars, healthVars, localVars, manifestVars, probeVars, segmentVars, batchVars, playVars, kvVars, mapperVars, epgVars, bootVars>>
notMapper == <<transcoderVars, proxyVars, storeVars, healthVars, localVars, manifestVars, probeVars, segmentVars, batchVars, playVars, kvVars, syncVars, epgVars, bootVars>>
notEpg == <<transcoderVars, proxyVars, storeVars, healthVars, localVars, manifestVars, probeVars, segmentVars, batchVars, playVars, kvVars, syncVars, mapperVars, bootVars>>
notBoot == <<transcoderVars, proxyVars, storeVars, healthVars, localVars, manifestVars, probeVars, segmentVars, batchVars, playVars, kvVars, syncVars, mapperVars, epgVars>>

(***************************************************************************)
(* Bounds                                                                  *)
(***************************************************************************)
NumCallers == 2
MaxSpawns == 2
MaxClock == 1
MaxBatch == 1
MaxHours == 3

(***************************************************************************)
(* TranscoderService                                                       *)
(***************************************************************************)
TStreamIds == {1}
Callers == 1..NumCallers
Pids == 1..MaxSpawns
NoProc == 0
NoStream == 0
NoAccess == -1

IdleCall == [pc |-> "idle", stream |-> NoStream, pid |-> NoProc, result |-> "none"]

\* A stop_transcode or cleanup_stale_transcodes call: where it is, the streams
\* it was asked to stop (stale_ids, or the one stream_id), those still to do
\* and the process it waits for.
\* The stop_transcode and cleanup_stale_transcodes calls that may be in flight
\* together.
Stoppers == {1, 2}

IdleStop == [pc |-> "idle", kind |-> "none", cutoff |-> 0, stale_ids |-> <<>>,
             todo |-> <<>>, pid |-> NoProc]

TranscoderInit ==
    /\ processes = [s \in TStreamIds |-> NoProc]
    /\ last_access = [s \in TStreamIds |-> NoAccess]
    /\ live = {}
    /\ procStream = [p \in Pids |-> NoStream]
    /\ dirExists = [s \in TStreamIds |-> FALSE]
    /\ playlist = [s \in TStreamIds |-> NoProc]
    /\ calls = [c \in Callers |-> IdleCall]
    /\ stops = [c \in Stoppers |-> IdleStop]
    /\ tclock = 0

\* start_transcode, from its entry to the await of create_subprocess_exec.
\* A tracked live process: refresh last_access and return True.  A tracked dead
\* process: stop_transcode (no signal is sent to a dead process, so it does not
\* suspend) drops the entry, the last_access entry and the directory.  Then the
\* stream directory is wiped and recreated and the call suspends in the spawn.
start_transcode(c, s) ==
    /\ calls[c].pc = "idle"
    /\ IF processes[s] # NoProc /\ processes[s] \in live
       THEN /\ last_access' = [last_access EXCEPT ![s] = tclock]
            /\ calls' = [calls EXCEPT ![c] =
                    [pc |-> "returned", stream |-> s, pid |-> processes[s], result |-> "true"]]
            /\ UNCHANGED <<processes, dirExists, playlist>>
       ELSE /\ processes' = [processes EXCEPT ![s] = NoProc]
            /\ last_access' =
                 IF processes[s] # NoProc
                 THEN [last_access EXCEPT ![s] = NoAccess]
                 ELSE last_access
            /\ dirExists' = [dirExists EXCEPT ![s] = TRUE]
            /\ playlist' = [playlist EXCEPT ![s] = NoProc]
            /\ calls' = [calls EXCEPT ![c] =
                    [pc |-> "awaiting_exec", stream |-> s, pid |-> NoProc, result |-> "none"]]
    /\ UNCHANGED <<live, procStream, tclock>>
    /\ UNCHANGED <<stops, notTranscoder>>

\* asyncio.create_subprocess_exec: the operating system creates the remuxer
\* process while the calling coroutine is suspended, or the spawn fails.
create_subprocess_exec(c) ==
    /\ calls[c].pc = "awaiting_exec"
    /\ \/ \E p \in Pids :
            /\ procStream[p] = NoStream
            /\ \A q \in Pids : q < p => procStream[q] # NoStream
            /\ procStream' = [procStream EXCEPT ![p] = calls[c].stream]
            /\ live' = live \cup {p}
            /\ calls' = [calls EXCEPT ![c].pc = "exec_done", ![c].pid = p]
       \/ /\ calls' = [calls EXCEPT ![c].pc = "exec_failed"]
          /\ UNCHANGED <<live, procStream>>
    /\ UNCHANGED <<processes, last_access, dirExists, playlist, tclock>>
    /\ UNCHANGED <<stops, notTranscoder>>

\* start_transcode after the await: track the handle and return True, or
\* return False when the spawn raised.
start_transcode_resume(c) ==
    /\ calls[c].pc \in {"exec_done", "exec_failed"}
    /\ IF calls[c].pc = "exec_done"
       THEN /\ processes' = [processes EXCEPT ![calls[c].stream] = calls[c].pid]
            /\ last_access' = [last_access EXCEPT ![calls[c].stream] = tclock]
            /\ calls' = [calls EXCEPT ![c].pc = "returned", ![c].result = "true"]
       ELSE /\ calls' = [calls EXCEPT ![c].pc = "returned", ![c].result = "false"]
            /\ UNCHANGED <<processes, last_access>>
    /\ UNCHANGED <<live, procStream, dirExists, playlist, tclock>>
    /\ UNCHANGED <<stops, notTranscoder>>

\* The request that called start_transcode is over; the caller may call again.
call_complete(c) ==
    /\ calls[c].pc = "returned"
    /\ calls' = [calls EXCEPT ![c] = IdleCall]
    /\ UNCHANGED <<processes, last_access, live, procStream, dirExists, playlist, tclock>>
    /\ UNCHANGED <<stops, notTranscoder>>

\* A remuxer process exits on its own (returncode is no longer None).
process_exit(p) ==
    /\ p \in live
    /\ live' = live \ {p}
    /\ UNCHANGED <<processes, last_access, procStream, dirExists, playlist, calls, tclock>>
    /\ UNCHANGED <<stops, notTranscoder>>

\* A live remuxer writes index.m3u8 by path into its stream's directory.
remuxer_write(p) ==
    /\ p \in live
    /\ dirExists[procStream[p]]
    /\ playlist[procStream[p]] # p
    /\ playlist' = [playlist EXCEPT ![procStream[p]] = p]
    /\ UNCHANGED <<processes, last_access, live, procStream, dirExists, calls, tclock>>
    /\ UNCHANGED <<stops, notTranscoder>>

transcoder_tick ==
    /\ tclock < MaxClock
    /\ tclock' = tclock + 1
    /\ UNCHANGED <<processes, last_access, live, procStream, dirExists, playlist, calls>>
    /\ UNCHANGED <<stops, notTranscoder>>

\* The dictionaries and directories stop_transcode works on.
tracked == [processes |-> processes, last_access |-> last_access,
            dirExists |-> dirExists, playlist |-> playlist]

\* The last_access entry and the directory are dropped, the process entry is
\* left.
stop_cleanup_access_only(st, s) ==
    [st EXCEPT !.last_access[s] = NoAccess, !.dirExists[s] = FALSE, !.playlist[s] = NoProc]

\* stop_transcode from `del self._processes[stream_id]` to its end: both
\* entries are dropped and the stream directory is removed.
stop_cleanup(st, s) ==
    [st EXCEPT !.processes[s] = NoProc, !.last_access[s] = NoAccess,
               !.dirExists[s] = FALSE, !.playlist[s] = NoProc]

\* stop_transcode for each stream of ids in turn, up to the first tracked
\* process whose returncode is None: that one is sent SIGTERM and the call
\* suspends in wait_for(proc.wait(), 2.0).
RECURSIVE stop_each(_, _)
stop_each(st, ids) ==
    IF ids = <<>> THEN [st |-> st, todo |-> <<>>, pid |-> NoProc]
    ELSE IF st.processes[Head(ids)] # NoProc /\ st.processes[Head(ids)] \in live
         THEN [st |-> st, todo |-> ids, pid |-> st.processes[Head(ids)]]
         ELSE stop_each(stop_cleanup(st, Head(ids)), Tail(ids))

\* The second loop of cleanup_stale_transcodes: every directory under
\* TRANSCODE_DIR whose name is not a key of _processes is removed.
remove_orphans(st) ==
    [st EXCEPT !.dirExists = [s \in TStreamIds |-> st.dirExists[s] /\ st.processes[s] # NoProc],
               !.playlist = [s \in TStreamIds |->
                               IF st.processes[s] # NoProc THEN st.playlist[s] ELSE NoProc]]

\* A stop_transcode or cleanup call runs from r, the outcome of stop_each,
\* to its next await or to its return.
stops_continue(c, call, r) ==
    LET done == r.pid = NoProc
        st == IF done /\ call.kind = "cleanup" THEN remove_orphans(r.st) ELSE r.st
    IN  /\ processes' = st.processes
        /\ last_access' = st.last_access
        /\ dirExists' = st.dirExists
        /\ playlist' = st.playlist
        /\ stops' = [stops EXCEPT ![c] =
                [call EXCEPT !.pc = IF done THEN "returned" ELSE "wait",
                             !.todo = r.todo, !.pid = r.pid]]

\* stop_transcode(stream_id), called on its own.
stop_transcode(c, s) ==
    /\ stops[c].pc = "idle"
    /\ stops_continue(c, [IdleStop EXCEPT !.kind = "stop", !.stale_ids = <<s>>],
                       stop_each(tracked, <<s>>))
    /\ UNCHANGED <<live, procStream, calls, tclock>>
    /\ UNCHANGED notTranscoder

\* No entry counts as stale.
never_stale(at, cutoff) == FALSE

\* `last_access < cutoff` of an entry of _last_access.
is_stale(at, cutoff) == at # NoAccess /\ at < cutoff

\* The keys of _last_access that are stale, in the dictionary's order.
RECURSIVE stale_list(_, _)
stale_list(ids, cutoff) ==
    IF ids = {} THEN <<>>
    ELSE LET s == CHOOSE x \in ids : \A y \in ids : x <= y
         IN  (IF is_stale(last_access[s], cutoff) THEN <<s>> ELSE <<>>)
                 \o stale_list(ids \ {s}, cutoff)

\* cleanup_stale_transcodes(max_age_minutes), from its entry to the first
\* await inside a stop_transcode, or to its return when none suspends.
cleanup_stale_transcodes(c, max_age_minutes) ==
    /\ stops[c].pc = "idle"
    /\ LET cutoff == tclock - max_age_minutes
           stale_ids == stale_list(TStreamIds, cutoff)
       IN  stops_continue(c, [IdleStop EXCEPT !.kind = "cleanup", !.cutoff = cutoff,
                                              !.stale_ids = stale_ids],
                          stop_each(tracked, stale_ids))
    /\ UNCHANGED <<live, procStream, calls, tclock>>
    /\ UNCHANGED notTranscoder

\* wait_for(proc.wait(), 2.0) is over: the process has exited, or it is killed
\* on the timeout.  `del self._processes[stream_id]` raises KeyError when the
\* key is gone; otherwise the stream is cleaned up and the call goes on.
stop_transcode_resume(c) ==
    /\ stops[c].pc = "wait"
    /\ live' = live \ {stops[c].pid}
    /\ LET s == Head(stops[c].todo)
       IN  IF processes[s] = NoProc
           THEN /\ stops' = [stops EXCEPT ![c].pc = "raised"]
                /\ UNCHANGED <<processes, last_access, dirExists, playlist>>
           ELSE stops_continue(c, stops[c],
                               stop_each(stop_cleanup(tracked, s), Tail(stops[c].todo)))
    /\ UNCHANGED <<procStream, calls, tclock>>
    /\ UNCHANGED notTranscoder

\* The caller of stop_transcode or cleanup_stale_transcodes is done with it.
stop_complete(c) ==
    /\ stops[c].pc \in {"returned", "raised"}
    /\ stops' = [stops EXCEPT ![c] = IdleStop]
    /\ UNCHANGED <<processes, last_access, live, procStream, dirExists, playlist, calls, tclock>>
    /\ UNCHANGED notTranscoder

\* get_manifest_path(stream_id) (is_ready calls it): the access is recorded,
\* for any stream_id, and the playlist is looked up.
get_manifest_path(s) ==
    /\ last_access[s] # tclock
    /\ last_access' = [last_access EXCEPT ![s] = tclock]
    /\ UNCHANGED <<processes, live, procStream, dirExists, playlist, calls, stops, tclock>>
    /\ UNCHANGED notTranscoder

MaxAge == 1

TranscoderNext ==
    \/ \E c \in Callers, s \in TStreamIds : start_transcode(c, s)
    \/ \E c \in Callers : create_subprocess_exec(c)
    \/ \E c \in Callers : start_transcode_resume(c)
    \/ \E c \in Callers : call_complete(c)
    \/ \E p \in Pids : process_exit(p)
    \/ \E p \in Pids : remuxer_write(p)
    \/ transcoder_tick

\* The service with its stop and cleanup calls: requests start streams one at
\* a time while stop_transcode and cleanup_stale_transcodes calls interleave.
Starters == {1}

StopNext ==
    \/ \E c \in Starters, s \in TStreamIds : start_transcode(c, s)
    \/ \E c \in Starters : create_subprocess_exec(c)
    \/ \E c \in Starters : start_transcode_resume(c)
    \/ \E c \in Starters : call_complete(c)
    \/ \E p \in Pids : process_exit(p)
    \/ transcoder_tick
    \/ \E c \in Stoppers, s \in TStreamIds : stop_transcode(c, s)
    \/ \E c \in Stoppers, m \in 0..MaxAge : cleanup_stale_transcodes(c, m)
    \/ \E c \in Stoppers : stop_transcode_resume(c)
    \/ \E c \in Stoppers : stop_complete(c)
    \/ \E s \in TStreamIds : get_manifest_path(s)

LivePidsOf(s) == {p \in live : procStream[p] = s}

\* C1: start_transcode calls for one stream_id that interleave while no live
\* process is tracked spawn exactly one remuxer: a stream never has two live
\* remuxer processes, and a live process spawned for a stream stays the tracked one.
C1_OneRemuxerPerStream ==
    \A s \in TStreamIds :
        /\ Cardinality(LivePidsOf(s)) <= 1
        /\ \A p \in LivePidsOf(s) :
              processes[s] \in {NoProc, p}

\* A stop_transcode call that returns leaves its stream in neither table and
\* without a directory.
StopReturnStep ==
    \A c \in Stoppers :
        (stops[c].pc # "returned" /\ stops'[c].pc = "returned" /\ stops'[c].kind = "stop")
            => \A i \in 1..Len(stops'[c].stale_ids) :
                  LET s == stops'[c].stale_ids[i]
                  IN  /\ processes'[s] = NoProc
                      /\ last_access'[s] = NoAccess
                      /\ ~dirExists'[s]

\* C22: stop_transcode is safe against concurrent calls for one stream_id:
\* under every interleaving of stop_transcode calls (direct, from
\* cleanup_stale_transcodes, from start_transcode on a dead process) every call
\* completes without raising, and afterwards the stream is in neither the
\* process table nor the last-access table and its directory is removed.
C22_StopIsReentrant ==
    /\ [](\A c \in Stoppers : stops[c].pc # "raised")
    /\ [][StopReturnStep]_vars

\* When cleanup_stale_transcodes returns: every last_access entry left is at
\* or after the cutoff, a stream it found stale is tracked only if it was
\* started again (its last_access is then at or after the cutoff), and every
\* directory left belongs to a tracked process.
CleanupReturnStep ==
    \A c \in Stoppers :
        (stops[c].pc # "returned" /\ stops'[c].pc = "returned" /\ stops'[c].kind = "cleanup")
            => /\ \A s \in TStreamIds :
                     \/ last_access'[s] = NoAccess
                     \/ last_access'[s] >= stops'[c].cutoff
               /\ \A i \in 1..Len(stops'[c].stale_ids) :
                     LET s == stops'[c].stale_ids[i]
                     IN  processes'[s] # NoProc => last_access'[s] # NoAccess
               /\ \A s \in TStreamIds : dirExists'[s] => processes'[s] # NoProc

C23_WitnessProcess ==
    \E c \in Stoppers :
        /\ stops[c].pc = "returned"
        /\ stops[c].kind = "cleanup"
        /\ stops[c].stale_ids # <<>>
        /\ \E p \in Pids : procStream[p] # NoStream /\ p \notin live
        /\ \A s \in TStreamIds : last_access[s] = NoAccess /\ ~dirExists[s]

\* A start_transcode call for s has created the directory and has not yet
\* recorded the process.
Starting(s) ==
    \E k \in Callers : calls[k].stream = s /\ calls[k].pc \in {"awaiting_exec", "exec_done"}

\* The stream directories a step of the cleanup call c removes.
RemovedBy(c) ==
    IF stops'[c] # stops[c] /\ stops'[c].kind = "cleanup"
    THEN {s \in TStreamIds : dirExists[s] /\ ~dirExists'[s]}
    ELSE {}

\* A cleanup leaves the directory of a stream that is being started.
CleanupSparesStarting ==
    \A c \in Stoppers : \A s \in RemovedBy(c) : ~Starting(s)

\* A cleanup leaves the directory of a stream whose tracked process is still
\* alive and was accessed at or after the cutoff.
CleanupSparesFresh ==
    \A c \in Stoppers : \A s \in RemovedBy(c) :
        ~(/\ processes[s] # NoProc
          /\ processes[s] \in live'
          /\ last_access[s] # NoAccess
          /\ last_access[s] >= stops'[c].cutoff)

C37_SparesStarting == [][CleanupSparesStarting]_vars
C37_SparesFresh == [][CleanupSparesFresh]_vars

\* C37: cleanup_stale_transcodes never deletes the output directory of a
\* transcode whose process is alive and whose last_access is newer than the
\* cutoff, nor the directory of a transcode whose start_transcode call is
\* still in progress (directory created, process not yet recorded), for any
\* interleaving with start_transcode.
C37_CleanupSparesActive == [][CleanupSparesStarting /\ CleanupSparesFresh]_vars

\* C40: in every reachable state of the Transcoder Manager, after any sequence
\* and interleaving of start_transcode, stop_transcode, get_manifest_path,
\* is_ready and cleanup_stale_transcodes, every stream_id with a tracked
\* process also has a last_access entry, so every tracked process can become
\* stale and be reclaimed by cleanup.
C40_TrackedHasAccess ==
    \A s \in TStreamIds : processes[s] # NoProc => last_access[s] # NoAccess

\* A stream stopped by a cleanup and started again is tracked with its second
\* process while a stop_transcode call waits for that process.
C40_Witness ==
    /\ \E c \in Stoppers : stops[c].pc = "returned" /\ stops[c].kind = "cleanup"
                             /\ stops[c].stale_ids # <<>>
    /\ \E c \in Stoppers : stops[c].pc = "wait" /\ stops[c].kind = "stop"
    /\ \E s \in TStreamIds : processes[s] = 2 /\ last_access[s] # NoAccess

(***************************************************************************)
(* StreamProxyService.proxy_manifest with GeoBypassService.fetch_with_bypass *)
(***************************************************************************)
max_retries == 2

\* What an upstream GET can come back with: a final status (redirects are
\* followed), httpx.TimeoutException, or another transport exception.
Statuses == {200, 403, 404, 503}
Resp(code) == [kind |-> "status", code |-> code]
TimeoutException == [kind |-> "timeout", code |-> 0]
OtherException == [kind |-> "error", code |-> 0]
Outcomes == {Resp(code) : code \in Statuses} \cup {TimeoutException, OtherException}

NewRequest ==
    [pc |-> "lookup", attempt |-> 0, geo_bypass_attempted |-> FALSE,
     status |-> 0, served |-> "none"]

ProxyInit ==
    /\ req = NewRequest
    /\ wire = <<>>

\* Response.raise_for_status() passes exactly the 2xx statuses.
is_success(code) == code \in 200..299

Finished(r, code, from) == [r EXCEPT !.pc = "done", !.status = code, !.served = from]

\* except httpx.TimeoutException: sleep and continue while attempt < max_retries,
\* else HTTP 504.
on_timeout(r) ==
    IF r.attempt < max_retries
    THEN [r EXCEPT !.pc = "get", !.attempt = r.attempt + 1]
    ELSE Finished(r, 504, "none")

\* The upstream status handed on to the client as it is.
status_passthrough(r, code) == Finished(r, code, "none")

\* except httpx.HTTPStatusError: 403 is final; a 5xx is retried while
\* attempt < max_retries; everything else is HTTP 502.
on_status_error(r, code) ==
    IF code = 403
    THEN Finished(r, 403, "none")
    ELSE IF 500 <= code /\ code < 600 /\ r.attempt < max_retries
         THEN [r EXCEPT !.pc = "get", !.attempt = r.attempt + 1]
         ELSE Finished(r, 502, "none")

\* except Exception: HTTP 500.
on_exception(r) == Finished(r, 500, "none")

\* raise_for_status on the response kept after the bypass branch, then the
\* rewrite and the StreamingResponse.
on_response(r, code, from) ==
    IF is_success(code) THEN Finished(r, 200, from) ELSE on_status_error(r, code)

\* get_stream_info: an unknown stream_id is HTTP 404 before any upstream request.
proxy_manifest_lookup(found) ==
    /\ req.pc = "lookup"
    /\ req' = IF found THEN [req EXCEPT !.pc = "get"] ELSE Finished(req, 404, "none")
    /\ UNCHANGED wire
    /\ UNCHANGED notProxy

\* One pass of the retry loop up to the answer of client.get(stream_url).
proxy_manifest_get(o) ==
    /\ req.pc = "get"
    /\ wire' = Append(wire, <<"get", o>>)
    /\ req' = CASE o.kind = "timeout" -> on_timeout(req)
                [] o.kind = "error" -> on_exception(req)
                [] o = Resp(403) /\ ~req.geo_bypass_attempted ->
                       [req EXCEPT !.pc = "bypass", !.geo_bypass_attempted = TRUE]
                [] OTHER -> on_response(req, o.code, "origin")
    /\ UNCHANGED notProxy

\* The awaited geo_service.fetch_with_bypass(stream_url, headers) inside the
\* same try block: its response replaces the 403 only when it is a 200; its
\* exceptions reach the handlers of the retry loop.
fetch_with_bypass(b) ==
    /\ req.pc = "bypass"
    /\ wire' = Append(wire, <<"bypass", b>>)
    /\ req' = CASE b.kind = "timeout" -> on_timeout(req)
                [] b.kind = "error" -> on_exception(req)
                [] b = Resp(200) -> on_response(req, 200, "bypass")
                [] OTHER -> on_response(req, 403, "origin")
    /\ UNCHANGED notProxy

ProxyNext ==
    \/ \E found \in BOOLEAN : proxy_manifest_lookup(found)
    \/ \E o \in Outcomes : proxy_manifest_get(o)
    \/ \E b \in Outcomes : fetch_with_bypass(b)

WireIdx == 1..Len(wire)
DirectGets == Cardinality({i \in WireIdx : wire[i][1] = "get"})
BypassCalls == Cardinality({i \in WireIdx : wire[i][1] = "bypass"})
Is4xx(o) == o.kind = "status" /\ o.code \in 400..499
Is5xx(o) == o.kind = "status" /\ o.code \in 500..599

\* C2: one proxy_manifest request sends at most max_retries+1 direct GETs, a
\* further direct GET follows only an attempt that ended in a timeout or a 5xx
\* status, and after any 4xx status no further direct GET is made.
C2_RetryOnlyOnTimeoutOr5xx ==
    /\ DirectGets <= max_retries + 1
    /\ \A i \in WireIdx :
          (i > 1 /\ wire[i][1] = "get")
              => (wire[i-1][2] = TimeoutException \/ Is5xx(wire[i-1][2]))
    /\ \A i, j \in WireIdx :
          (i < j /\ Is4xx(wire[i][2])) => wire[j][1] # "get"

\* C3: Geo-Bypass is invoked at most once per request and only in answer to an
\* origin 403; a bypass 200 is rewritten and served; a bypass that does not
\* yield 200 ends the request with HTTP 403.
C3_BypassOnceThen403 ==
    /\ BypassCalls <= 1
    /\ \A i \in WireIdx :
          wire[i][1] = "bypass" => (i > 1 /\ wire[i-1] = <<"get", Resp(403)>>)
    /\ \A i \in WireIdx :
          (req.pc = "done" /\ wire[i][1] = "bypass" /\ wire[i][2] = Resp(200))
              => (req.status = 200 /\ req.served = "bypass")
    /\ \A i \in WireIdx :
          (req.pc = "done" /\ wire[i][1] = "bypass" /\ wire[i][2] # Resp(200))
              => req.status = 403

\* C17: every proxy_manifest request ends in exactly one outcome, after at most
\* max_retries+1 direct GETs and one bypass call: a rewritten manifest (200), or
\* an HTTP error, where an unknown stream_id gives 404 with no upstream
\* request, an upstream non-2xx status other than 403 (a 5xx that persisted
\* through all retries included) gives 502, and timeouts on every attempt give
\* 504.
C17_ManifestOutcome ==
    /\ DirectGets <= max_retries + 1
    /\ BypassCalls <= 1
    /\ req.pc = "done" =>
          /\ req.status \in {200, 403, 404, 500, 502, 504}
          /\ (req.status = 200) <=> (req.served # "none")
          /\ (wire = <<>>) <=> (req.status = 404)
          /\ \A code \in Statuses :
                (/\ wire # <<>>
                 /\ wire[Len(wire)] = <<"get", Resp(code)>>
                 /\ ~is_success(code)
                 /\ code # 403)
                    => req.status = 502
          /\ (wire # <<>> /\ \A i \in WireIdx : wire[i] = <<"get", TimeoutException>>)
                => (req.status = 504 /\ Len(wire) = max_retries + 1)
    /\ req.pc # "done" => req.status = 0 /\ req.served = "none"

\* A request whose every attempt was answered 503 has ended with HTTP 502.
C17_Witness ==
    /\ req.pc = "done"
    /\ Len(wire) = max_retries + 1
    /\ \A i \in WireIdx : wire[i] = <<"get", Resp(503)>>
    /\ req.status = 502

\* A request whose every attempt timed out has ended with HTTP 504.
C17_WitnessTimeouts ==
    /\ req.pc = "done"
    /\ Len(wire) = max_retries + 1
    /\ \A i \in WireIdx : wire[i] = <<"get", TimeoutException>>
    /\ req.status = 504

(***************************************************************************)
(* CacheService: channels and streams tables                               *)
(***************************************************************************)
\* Python's None, and SQL NULL in a TEXT column.
None == "<None>"
\* SQL NULL in a TIMESTAMP column.
NULL == -1

\* str(x) as an f-string formats it: None becomes the text "None".
py_str(x) == IF x = None THEN "None" ELSE x

\* hashlib.md5(text.encode()).hexdigest()[:12].  The digest is kept symbolic:
\* equal texts give equal digests and, over the texts of this model, different
\* texts give different digests.
md5_hex12(text) == "md5[" \o text \o "]"

ChannelIdSet == {"C.us", "BC.us"}
ChannelNames == {"One", "Two"}
Urls == {"http://x/a", "http://x/aB"}

\* A channel object of the catalog, as store_channels reads it.
ChannelDicts == [id : ChannelIdSet, name : ChannelNames]
\* A stream object of the catalog: every producer sets "channel", possibly to None.
StreamDicts == [url : Urls, channel : ChannelIdSet \cup {None}]

\* All lists over S of length 1..n.
RECURSIVE ListsUpTo(_, _)
ListsUpTo(S, n) ==
    IF n = 0 THEN {}
    ELSE LET shorter == ListsUpTo(S, n - 1)
         IN  {<<x>> : x \in S} \cup shorter
             \cup {Append(l, x) : l \in shorter, x \in S}

NoCall == [op |-> "none", ids |-> {}]

StoreInit ==
    /\ channels = {}
    /\ streams = {}
    /\ lastCall = NoCall

\* DELETE FROM the table, then INSERT: what the upsert replaced.
delete_then_insert(table, row) == {row}

\* INSERT OR REPLACE: a row with the same primary key is deleted, then the new
\* row is inserted.
insert_or_replace(table, row) == {r \in table : r.id # row.id} \cup {row}

\* A row inserted as playable without any count.
channel_row_playable(ch) ==
    [id |-> ch.id, name |-> ch.name, has_streams |-> 1, stream_count |-> 0]

\* The row store_channels inserts: has_streams and stream_count are not in its
\* column list, so they take their DEFAULT 0.
channel_row(ch) ==
    [id |-> ch.id, name |-> ch.name, has_streams |-> 0, stream_count |-> 0]

RECURSIVE store_channels_rows(_, _)
store_channels_rows(table, batch) ==
    IF batch = <<>> THEN table
    ELSE store_channels_rows(insert_or_replace(table, channel_row(Head(batch))), Tail(batch))

BatchIds(batch) == {batch[i].id : i \in 1..Len(batch)}

store_channels(batch) ==
    /\ channels' = store_channels_rows(channels, batch)
    /\ lastCall' = [op |-> "store_channels", ids |-> BatchIds(batch)]
    /\ UNCHANGED streams
    /\ UNCHANGED notStore

\* store_streams: the id is derived from url and channel; the health columns
\* are not in the column list, so they take their defaults.  "source" is the
\* key of that name in the data column, which store_streams does not set.
stream_id_of(stream) == md5_hex12(stream.url \o py_str(stream.channel))

stream_row(stream) ==
    [id |-> stream_id_of(stream), channel_id |-> stream.channel, url |-> stream.url,
     source |-> None, health_status |-> "unknown", health_checked_at |-> NULL,
     health_error |-> None, next_check_due |-> NULL]

RECURSIVE store_streams_rows(_, _)
store_streams_rows(table, batch) ==
    IF batch = <<>> THEN table
    ELSE store_streams_rows(insert_or_replace(table, stream_row(Head(batch))), Tail(batch))

store_streams(batch) ==
    /\ streams' = store_streams_rows(streams, batch)
    /\ lastCall' = [op |-> "store_streams",
                    ids |-> {stream_id_of(batch[i]) : i \in 1..Len(batch)}]
    /\ UNCHANGED channels
    /\ UNCHANGED notStore

\* Every stream row, whatever its channel.
all_rows(table, channel_id) == table

\* The stream rows of one channel.
streams_of(table, channel_id) == {s \in table : s.channel_id = channel_id}

\* update_channel_stream_counts: every channel is reset to 0/0, then the
\* channels whose id is the channel_id of some stream get has_streams = 1 and
\* the number of those streams.  It returns the number of channels with
\* has_streams = 1 and the number of channels.
update_channel_stream_counts ==
    /\ channels' =
         {IF \E s \in streams : s.channel_id # None /\ s.channel_id = r.id
          THEN [r EXCEPT !.has_streams = 1,
                         !.stream_count = Cardinality(streams_of(streams, r.id))]
          ELSE [r EXCEPT !.has_streams = 0, !.stream_count = 0] : r \in channels}
    /\ lastCall' = [op |-> "update_channel_stream_counts", ids |-> {},
                    returned |-> [playable |-> Cardinality({r \in channels' : r.has_streams = 1}),
                                  total |-> Cardinality(channels')]]
    /\ UNCHANGED streams
    /\ UNCHANGED notStore

ChannelBatches == ListsUpTo(ChannelDicts, MaxBatch)
StreamBatches == ListsUpTo(StreamDicts, MaxBatch)

CatalogNext ==
    \/ \E batch \in ChannelBatches : store_channels(batch)
    \/ \E batch \in StreamBatches : store_streams(batch)
    \/ update_channel_stream_counts

\* C8: store_channels is idempotent and non-destructive: applying the batch a
\* second time to the table it produced changes nothing, and every row whose
\* id is not in the batch is kept as it was, has_streams and stream_count included.
C8_ChannelUpsertIdempotent ==
    [][\A batch \in ChannelBatches :
          store_channels(batch) =>
             /\ store_channels_rows(channels', batch) = channels'
             /\ \A r \in channels : r.id \notin BatchIds(batch) => r \in channels'
             /\ \A r \in channels' : r.id \notin BatchIds(batch) => r \in channels]_vars

\* C8 witness: store_channels has just run on a table that holds a channel
\* outside the batch whose stream counts had been recomputed.
C8_Witness ==
    /\ lastCall.op = "store_channels"
    /\ \E r \in channels :
          r.id \notin lastCall.ids /\ r.has_streams = 1 /\ r.stream_count > 0
    /\ \E r \in channels : r.id \in lastCall.ids

\* (url, channel) is one of the pairs of the batch.
InBatch(batch, url, channel) ==
    \E i \in 1..Len(batch) : batch[i].url = url /\ batch[i].channel = channel

\* C9: store_streams gives a stream the id md5(url + channel)[:12]; storing a
\* batch whose (url, channel) pairs are all stored already adds no row, and a
\* stored stream whose (url, channel) pair is not in the batch remains stored.
C9_StableStreamIds ==
    [][\A batch \in StreamBatches :
          store_streams(batch) =>
             /\ \A i \in 1..Len(batch) :
                   \E r \in streams' :
                      /\ r.id = md5_hex12(batch[i].url \o py_str(batch[i].channel))
                      /\ r.url = batch[i].url /\ r.channel_id = batch[i].channel
             /\ (\A i \in 1..Len(batch) :
                    \E r \in streams : r.url = batch[i].url
                                       /\ r.channel_id = batch[i].channel)
                => Cardinality(streams') <= Cardinality(streams)
             /\ \A r \in streams :
                   ~InBatch(batch, r.url, r.channel_id) => r \in streams']_vars

(***************************************************************************)
(* M3UParser (services/m3u_parser.py) and CacheService.store_m3u_streams   *)
(***************************************************************************)
\* Texts are sequences of tokens, so that split and rsplit can be computed.
RECURSIVE join(_)
join(tokens) == IF tokens = <<>> THEN "" ELSE Head(tokens) \o join(Tail(tokens))

\* str.upper() on the country codes of the model.
upper(s) == CASE s = "us" -> "US" [] s = "uk" -> "UK" [] OTHER -> s

\* filename.split('_', 1): the text before the first "_" and, when there is
\* one, the text after it.
split_once(tokens, sep) ==
    LET hits == {i \in 1..Len(tokens) : tokens[i] = sep}
    IN  IF hits = {} THEN <<join(tokens)>>
        ELSE LET i == CHOOSE k \in hits : \A j \in hits : k <= j
             IN  <<join(SubSeq(tokens, 1, i - 1)), join(SubSeq(tokens, i + 1, Len(tokens)))>>

\* tvg_id.rsplit('@', 1): split at the last "@".
rsplit_once(tokens, sep) ==
    LET hits == {i \in 1..Len(tokens) : tokens[i] = sep}
        i == CHOOSE k \in hits : \A j \in hits : k >= j
    IN  <<join(SubSeq(tokens, 1, i - 1)), join(SubSeq(tokens, i + 1, Len(tokens)))>>

\* One "#EXTINF" + URL pair of a file read by parse_file.
parse_entry(stem, entry) ==
    LET parts == split_once(stem, "_")
        country == upper(parts[1])
        provider == IF Len(parts) > 1 THEN parts[2] ELSE None
        tvg_id == entry.tvg_id
        channel_id == IF tvg_id = <<>> THEN None
                      ELSE IF \E i \in 1..Len(tvg_id) : tvg_id[i] = "@"
                           THEN rsplit_once(tvg_id, "@")[1]
                           ELSE join(tvg_id)
        feed == IF tvg_id # <<>> /\ \E i \in 1..Len(tvg_id) : tvg_id[i] = "@"
                THEN rsplit_once(tvg_id, "@")[2] ELSE None
        unique_str == entry.url \o country \o (IF provider = None THEN "" ELSE provider)
    IN  [id |-> md5_hex12(unique_str), channel_id |-> channel_id, feed |-> feed,
         url |-> entry.url, country |-> country, provider |-> provider]

parse_file(file) == [i \in 1..Len(file.entries) |-> parse_entry(file.stem, file.entries[i])]

\* The row store_m3u_streams inserts for a parsed entry.
m3u_row(stream) ==
    [id |-> stream.id, channel_id |-> stream.channel_id, url |-> stream.url,
     source |-> "m3u_local", health_status |-> "unknown", health_checked_at |-> NULL,
     health_error |-> None, next_check_due |-> NULL]

RECURSIVE store_m3u_streams_rows(_, _)
store_m3u_streams_rows(table, batch) ==
    IF batch = <<>> THEN table
    ELSE store_m3u_streams_rows(insert_or_replace(table, m3u_row(Head(batch))), Tail(batch))

RECURSIVE all_streams(_)
all_streams(files) ==
    IF files = <<>> THEN <<>> ELSE parse_file(Head(files)) \o all_streams(Tail(files))

\* import_m3u_directory: parse every file, then store all entries in one
\* store_m3u_streams call (no call when nothing was parsed).
import_m3u_directory(files) ==
    LET entries == all_streams(files)
    IN  /\ IF entries = <<>>
           THEN UNCHANGED <<streams, lastCall>>
           ELSE /\ streams' = store_m3u_streams_rows(streams, entries)
                /\ lastCall' = [op |-> "store_m3u_streams",
                                ids |-> {entries[i].id : i \in 1..Len(entries)}]
        /\ UNCHANGED channels
        /\ UNCHANGED notStore

TvgIds == {<<>>, <<"C.us">>, <<"C.us", "@", "East">>}
Stems == {<<"us">>, <<"us", "_", "pluto">>}
M3UEntries == [tvg_id : TvgIds, url : Urls]
\* A file may hold no entry at all.
M3UFiles == [stem : Stems, entries : {<<>>} \cup ListsUpTo(M3UEntries, MaxBatch)]
\* Directories holding one file.
M3UDirs == {<<f>> : f \in M3UFiles}

ImportNext ==
    \/ \E batch \in StreamBatches : store_streams(batch)
    \/ \E files \in M3UDirs : import_m3u_directory(files)

\* C10: in every state of the store reached by catalog stream upserts and M3U
\* imports, two stream rows with the same (url, channel_id) have the same id,
\* that is, they are one row.
C10_IdFunctionOfUrlChannel ==
    \A r1 \in streams : \A r2 \in streams :
        (r1.url = r2.url /\ r1.channel_id = r2.channel_id) => r1.id = r2.id

(***************************************************************************)
(* The store under channel upserts, stream upserts, M3U imports and        *)
(* recomputation of the stream counts                                      *)
(***************************************************************************)
\* The streams of this specification share one URL: only their channel_id
\* enters the counts.
PlayableUrls == {"http://x/a"}
PlayableStreamBatches ==
    ListsUpTo([url : PlayableUrls, channel : ChannelIdSet \cup {None}], MaxBatch)
PlayableM3UDirs ==
    {<<f>> : f \in [stem : {<<"us">>},
                    entries : ListsUpTo([tvg_id : TvgIds, url : PlayableUrls], MaxBatch)]}

PlayableNext ==
    \/ \E batch \in ChannelBatches : store_channels(batch)
    \/ \E batch \in PlayableStreamBatches : store_streams(batch)
    \/ \E files \in PlayableM3UDirs : import_m3u_directory(files)
    \/ update_channel_stream_counts

\* C11: immediately after update_channel_stream_counts every channel has
\* has_streams = 1 exactly when some stream row has its id as channel_id,
\* stream_count is the number of those rows, and the returned "playable" is
\* the number of channels with has_streams = 1.
C11_CountsAfterRecompute ==
    lastCall.op = "update_channel_stream_counts" =>
        /\ \A c \in channels :
              /\ (c.has_streams = 1) <=> (\E s \in streams : s.channel_id = c.id)
              /\ c.has_streams \in {0, 1}
              /\ c.stream_count = Cardinality({s \in streams : s.channel_id = c.id})
        /\ lastCall.returned.playable = Cardinality({c \in channels : c.has_streams = 1})

\* C11 witness: a recompute has just counted two streams for one channel and
\* none for another.
C11_Witness ==
    /\ lastCall.op = "update_channel_stream_counts"
    /\ \E c \in channels : c.stream_count = 2
    /\ \E c \in channels : c.has_streams = 0
    /\ lastCall.returned.playable = 1

\* C12: in every state of the store every channel has has_streams = 1 exactly
\* when its stream_count is positive.
C12_HasStreamsIffCounted ==
    \A c \in channels : (c.has_streams = 1) <=> (c.stream_count > 0)

\* C12 witness: channels with and without counted streams, after a later
\* channel upsert and M3U import.
C12_Witness ==
    /\ lastCall.op = "store_m3u_streams"
    /\ \E c \in channels : c.has_streams = 1 /\ c.stream_count > 0
    /\ \E c \in channels : c.has_streams = 0 /\ \E s \in streams : s.channel_id = c.id

(***************************************************************************)
(* DataSyncService.sync_all (services/data_sync.py) on the two tables      *)
(***************************************************************************)
\* update_channel_stream_counts on given tables: the channels table it leaves.
channel_stream_counts(chs, strs) ==
    {IF \E s \in strs : s.channel_id # None /\ s.channel_id = r.id
     THEN [r EXCEPT !.has_streams = 1,
                    !.stream_count = Cardinality(streams_of(strs, r.id))]
     ELSE [r EXCEPT !.has_streams = 0, !.stream_count = 0] : r \in chs}

\* sync_all, from its first fetch to its return.  A fetch that failed gave
\* None, which `if channels:` treats like an empty list (written <<>> here);
\* the counts are recomputed after the streams were stored and after an M3U
\* import that stored something, and not otherwise.
sync_all(fetched_channels, fetched_streams, files) ==
    LET stored_channels == IF fetched_channels # <<>>
                           THEN store_channels_rows(channels, fetched_channels)
                           ELSE channels
        stored_streams == IF fetched_streams # <<>>
                          THEN store_streams_rows(streams, fetched_streams)
                          ELSE streams
        counted == IF fetched_streams # <<>>
                   THEN channel_stream_counts(stored_channels, stored_streams)
                   ELSE stored_channels
        entries == all_streams(files)
        m3u_imported == Len(entries)
        imported == IF entries # <<>>
                    THEN store_m3u_streams_rows(stored_streams, entries)
                    ELSE stored_streams
    IN  /\ streams' = imported
        /\ channels' = IF m3u_imported > 0
                       THEN channel_stream_counts(counted, imported)
                       ELSE counted
        /\ lastCall' = [op |-> "sync_all", ids |-> {},
                        fetched |-> [channels |-> fetched_channels # <<>>,
                                     streams |-> fetched_streams # <<>>],
                        m3u_imported |-> m3u_imported]
        /\ UNCHANGED notStore

\* What the API answered and what the M3U directory holds (<<>>: the fetch
\* failed, there is no directory).
SyncAllNext ==
    \E fetched_channels \in {<<>>} \cup ChannelBatches :
        \E fetched_streams \in {<<>>} \cup PlayableStreamBatches :
            \E files \in {<<>>} \cup PlayableM3UDirs :
                sync_all(fetched_channels, fetched_streams, files)

\* C35: after sync_all returns, every channel has has_streams = 1 exactly when
\* the streams table holds at least one stream for it, whichever subset of the
\* endpoint fetches failed; a sync in which the channels fetch succeeds and the
\* streams fetch fails does not leave channels that still have streams marked
\* as not playable.
C35_PlayableAfterSync ==
    lastCall.op = "sync_all" =>
        \A c \in channels : (c.has_streams = 1) <=> (\E s \in streams : s.channel_id = c.id)

(***************************************************************************)
(* HealthWorker (services/health_worker.py) and the health methods of      *)
(* CacheService.  Time is counted in hours; the worker's sleeps (10 s,     *)
(* 5 s, 30 s) are shorter than one unit, so the clock may or may not       *)
(* advance while the loop is suspended.                                    *)
(***************************************************************************)

\* `sub in text` for the texts above.
contains(text, sub) ==
    CASE text = "403 Forbidden (possible geo-block)" -> sub \in {"403", "Forbidden"}
      [] text = "404 Not Found" -> sub \in {"404", "Not Found"}
      [] text = "HTTP 500" -> sub \in {"HTTP", "500"}
      [] text = "Timeout" -> sub \in {"Timeout"}
      [] text = "Connection refused" -> sub \in {"Connection refused"}
      [] OTHER -> FALSE

\* What _test_stream can return: {"status", "error"}, error None when the key
\* is absent.
ProbeResults ==
    {[status |-> "working", error |-> None],
     [status |-> "warning", error |-> "403 Forbidden (possible geo-block)"],
     [status |-> "failed", error |-> "404 Not Found"],
     [status |-> "failed", error |-> "HTTP 500"],
     [status |-> "failed", error |-> "Timeout"],
     [status |-> "failed", error |-> "Connection refused"]}

\* _process_batch: hours until the next check, from status and error text.
recheck_hours(status, err) ==
    LET error == IF err = None THEN "" ELSE err
    IN  IF status = "working" THEN 6
        ELSE IF status = "warning" THEN 7 * 24
        ELSE IF contains(error, "404") \/ contains(error, "Not Found") THEN 7 * 24
        ELSE IF contains(error, "Timeout") THEN 1
        ELSE IF contains(error, "Connection refused") THEN 24
        ELSE 1

\* The parameters of CacheService.update_stream_health.  The class body defines
\* the method twice; the later definition is the attribute the class keeps.
update_stream_health_first_params ==
    {"stream_id", "status", "response_ms", "error", "next_check_due"}
update_stream_health_params == {"stream_id", "status", "response_ms", "error"}

\* A call of update_stream_health with keyword arguments kwargs at time now:
\* an unexpected keyword raises TypeError when the call is made; otherwise the
\* UPDATE sets the columns of the row with that id (no row: nothing changes).
update_stream_health(table, kwargs, now) ==
    IF ~(DOMAIN kwargs \subseteq update_stream_health_params)
    THEN [raised |-> TRUE, table |-> table]
    ELSE [raised |-> FALSE,
          table |-> {IF r.id = kwargs.stream_id
                     THEN [r EXCEPT !.health_status = kwargs.status,
                                    !.health_checked_at = now,
                                    !.health_error =
                                        IF "error" \in DOMAIN kwargs THEN kwargs.error ELSE None]
                     ELSE r : r \in table}]

BATCH_SIZE == 30

\* get_unchecked_streams(limit): rows never checked or checked more than one
\* hour ago, ORDER BY health_checked_at ASC NULLS FIRST, LIMIT limit.  Rows with
\* equal keys come in any order, so this is the set of possible results.
get_unchecked_streams(table, now, limit) ==
    LET due == {r \in table : r.health_checked_at = NULL \/ r.health_checked_at < now - 1}
        n == Cardinality(due)
        k == IF limit < n THEN limit ELSE n
        sorted == {f \in [1..n -> due] :
                     /\ \A i \in 1..n : \A j \in 1..n : i # j => f[i] # f[j]
                     /\ \A i \in 1..n : \A j \in 1..n :
                           i < j => f[i].health_checked_at <= f[j].health_checked_at}
    IN  {[i \in 1..k |-> f[i].id] : f \in sorted}

\* _save_snapshot: the streams whose health_status is set and not "unknown".
NoSnapshot == [exists |-> FALSE, streams |-> {}]
save_snapshot(table) ==
    [exists |-> TRUE,
     streams |-> {[id |-> r.id, health_status |-> r.health_status] :
                    r \in {x \in table : x.health_status # "unknown"}}]

\* _load_snapshot: one update_stream_health call per stream of the file, with
\* stream_id, status and response_ms; any exception is caught.
RECURSIVE load_snapshot_rows(_, _, _)
load_snapshot_rows(table, entries, now) ==
    IF entries = {} THEN table
    ELSE LET e == CHOOSE x \in entries : TRUE
             call == update_stream_health(
                        table,
                        [stream_id |-> e.id, status |-> e.health_status, response_ms |-> None],
                        now)
         IN  IF call.raised THEN table
             ELSE load_snapshot_rows(call.table, entries \ {e}, now)

load_snapshot(table, file, now) ==
    IF ~file.exists THEN table ELSE load_snapshot_rows(table, file.streams, now)

NoProbe == [id |-> None, status |-> "none", error |-> None, at |-> NULL]
IdleLoop == [pc |-> "none", batch |-> <<>>, results |-> <<>>]

WorkerInit(file) ==
    /\ hclock = 0
    /\ running = FALSE
    /\ task = "none"
    /\ cancel = FALSE
    /\ life = "idle"
    /\ worker = IdleLoop
    /\ full_pass_complete = FALSE
    /\ snapshot = file
    /\ written = [by |-> "none", loop_writes |-> 0]
    /\ lastProbe = NoProbe
    /\ caught = FALSE

\* start(): a running worker is left alone; otherwise the call goes on to
\* _load_snapshot.
start ==
    /\ life = "idle"
    /\ ~running
    /\ life' = "start_load"
    /\ caught' = FALSE
    /\ UNCHANGED <<hclock, running, task, cancel, worker, full_pass_complete, snapshot, written,
                   lastProbe, streams>>
    /\ UNCHANGED notHealth

start_already_running ==
    /\ life = "idle"
    /\ running
    /\ UNCHANGED healthVars
    /\ UNCHANGED <<streams, notHealth>>

\* start(), from _load_snapshot to its return: the snapshot is applied to the
\* table, _running is set and the loop task is created.
start_resume ==
    /\ life = "start_load"
    /\ streams' = load_snapshot(streams, snapshot, hclock)
    /\ running' = TRUE
    /\ task' = "pending"
    /\ cancel' = FALSE
    /\ worker' = [IdleLoop EXCEPT !.pc = "init_sleep"]
    /\ life' = "idle"
    /\ UNCHANGED <<hclock, full_pass_complete, snapshot, written, lastProbe, caught>>
    /\ UNCHANGED notHealth

\* stop() up to `await self._task`: _running is cleared and the task, when
\* there is one, is cancelled.  The application stops a started worker.
stop ==
    /\ life = "idle"
    /\ running
    /\ running' = FALSE
    /\ cancel' = (task = "pending")
    /\ life' = "stop_await"
    /\ UNCHANGED <<hclock, task, worker, full_pass_complete, snapshot, written, lastProbe, caught,
                   streams>>
    /\ UNCHANGED notHealth

\* stop() goes on without waiting for the task.
not_awaited == TRUE

\* `await self._task` in stop() returns (or raises the CancelledError that
\* stop() swallows) once the task is done; without a task it is skipped.
task_done == task # "pending"

\* stop(), once the task is done: the snapshot is saved and the call returns.
stop_resume ==
    /\ life = "stop_await"
    /\ task_done
    /\ snapshot' = save_snapshot(streams)
    /\ written' = [written EXCEPT !.by = "stop"]
    /\ life' = "idle"
    /\ UNCHANGED <<hclock, running, task, cancel, worker, full_pass_complete, lastProbe,
                   caught, streams>>
    /\ UNCHANGED notHealth

\* The loop task has ended: by CancelledError or by leaving the while loop.
LoopEnded == [pc |-> "ended", task |-> "done"]
\* Without a handler the exception would leave the task.
uncaught_Exception == [pc |-> "ended", task |-> "done"]

\* `except Exception`: log, then asyncio.sleep(30).
except_Exception == [pc |-> "backoff", task |-> "pending"]

\* The task ends where a pending cancellation is delivered at an await; `to`
\* is where the loop goes otherwise.
Resume(to) ==
    IF cancel
    THEN /\ worker' = [IdleLoop EXCEPT !.pc = LoopEnded.pc]
         /\ task' = LoopEnded.task
         /\ cancel' = FALSE
    ELSE /\ worker' = to
         /\ task' = IF to.pc = "ended" THEN "done" ELSE task
         /\ UNCHANGED cancel

\* asyncio.sleep(10) returns and `while self._running` is evaluated; the body
\* starts with _process_batch, which suspends in get_unchecked_streams.
LoopHead == IF running THEN [IdleLoop EXCEPT !.pc = "fetch"]
            ELSE [IdleLoop EXCEPT !.pc = "ended"]

initial_sleep_done ==
    /\ worker.pc = "init_sleep"
    /\ Resume(LoopHead)
    /\ UNCHANGED <<hclock, running, life, full_pass_complete, snapshot, written, lastProbe, caught,
                   streams>>
    /\ UNCHANGED notHealth

\* Every pass without a due stream counts.
any_empty_pass == TRUE

\* `not batch_processed and not self._full_pass_complete`, for an empty batch.
first_empty_pass == ~full_pass_complete

\* get_unchecked_streams returns (or the database raises): an empty result
\* marks the full pass, saves the snapshot once and sleeps BATCH_DELAY; a
\* non-empty one goes to the probes.
fetch_done(ok) ==
    /\ worker.pc = "fetch"
    /\ IF cancel \/ ~ok
       THEN /\ Resume([IdleLoop EXCEPT !.pc = except_Exception.pc])
            /\ caught' = (caught \/ ~cancel)
            /\ UNCHANGED <<full_pass_complete, snapshot, written>>
       ELSE \E found \in get_unchecked_streams(streams, hclock, BATCH_SIZE) :
               /\ IF found = <<>>
                  THEN /\ Resume([IdleLoop EXCEPT !.pc = "batch_delay"])
                       /\ full_pass_complete' = TRUE
                       /\ snapshot' = IF first_empty_pass THEN save_snapshot(streams)
                                      ELSE snapshot
                       /\ written' = IF first_empty_pass
                                     THEN [by |-> "loop",
                                           loop_writes |-> written.loop_writes + 1]
                                     ELSE written
                  ELSE /\ Resume([pc |-> "probing", batch |-> found, results |-> <<>>])
                       /\ UNCHANGED <<full_pass_complete, snapshot, written>>
               /\ UNCHANGED caught
    /\ UNCHANGED <<hclock, running, life, lastProbe, streams>>
    /\ UNCHANGED notHealth

\* asyncio.gather returns one result per stream of the batch.
probes_done(rs) ==
    /\ worker.pc = "probing"
    /\ Len(rs) = Len(worker.batch)
    /\ Resume([worker EXCEPT !.pc = "update", !.results = rs])
    /\ UNCHANGED <<hclock, running, life, full_pass_complete, snapshot, written, lastProbe, caught,
                   streams>>
    /\ UNCHANGED notHealth

\* One iteration of the update loop of _process_batch: next_check is computed
\* and update_stream_health is called with next_check_due.  A raised exception
\* leaves _process_batch and is caught by the loop; after the last stream
\* _process_batch returns True and the loop sleeps BATCH_DELAY.
process_result ==
    /\ worker.pc = "update"
    /\ LET stream_id == Head(worker.batch)
           result == Head(worker.results)
           next_check == hclock + recheck_hours(result.status, result.error)
           call == update_stream_health(
                      streams,
                      [stream_id |-> stream_id, status |-> result.status,
                       response_ms |-> None, error |-> result.error,
                       next_check_due |-> next_check],
                      hclock)
       IN  /\ lastProbe' = [id |-> stream_id, status |-> result.status,
                            error |-> result.error, at |-> hclock]
           /\ IF call.raised
              THEN /\ worker' = [IdleLoop EXCEPT !.pc = except_Exception.pc]
                   /\ task' = except_Exception.task
                   /\ caught' = TRUE
                   /\ UNCHANGED <<streams, cancel>>
              ELSE /\ streams' = call.table
                   /\ Resume(IF Len(worker.batch) = 1
                             THEN [IdleLoop EXCEPT !.pc = "batch_delay"]
                             ELSE [worker EXCEPT !.batch = Tail(worker.batch),
                                                 !.results = Tail(worker.results)])
                   /\ UNCHANGED caught
    /\ UNCHANGED <<hclock, running, life, full_pass_complete, snapshot, written>>
    /\ UNCHANGED notHealth

\* asyncio.sleep(BATCH_DELAY) or asyncio.sleep(30) returns: back to the head of
\* the while loop.
sleep_done ==
    /\ worker.pc \in {"batch_delay", "backoff"}
    /\ Resume(LoopHead)
    /\ UNCHANGED <<hclock, running, life, full_pass_complete, snapshot, written, lastProbe, caught,
                   streams>>
    /\ UNCHANGED notHealth

health_tick ==
    /\ hclock < MaxHours
    /\ hclock' = hclock + 1
    /\ UNCHANGED <<running, task, cancel, life, worker, full_pass_complete, snapshot, written,
                   lastProbe, caught, streams>>
    /\ UNCHANGED notHealth

HealthNext ==
    \/ start
    \/ start_already_running
    \/ start_resume
    \/ stop
    \/ stop_resume
    \/ initial_sleep_done
    \/ \E ok \in BOOLEAN : fetch_done(ok)
    \/ \E rs \in [1..Len(worker.batch) -> ProbeResults] : probes_done(rs)
    \/ process_result
    \/ sleep_done
    \/ health_tick

\* The catalog the worker runs on: two streams stored by store_streams.
HealthCatalog ==
    <<[url |-> "http://x/a", channel |-> "C.us"], [url |-> "http://x/aB", channel |-> "BC.us"]>>

\* The snapshot file found at the first start: none, or one left by an earlier
\* run (naming a stored stream, every stored stream, or a stream that is gone).
SnapshotFiles ==
    {NoSnapshot,
     [exists |-> TRUE,
      streams |-> {[id |-> stream_id_of(HealthCatalog[1]), health_status |-> "working"]}],
     [exists |-> TRUE,
      streams |-> {[id |-> stream_id_of(HealthCatalog[1]), health_status |-> "working"],
                   [id |-> stream_id_of(HealthCatalog[2]), health_status |-> "failed"]}],
     [exists |-> TRUE, streams |-> {[id |-> "md5[gone]", health_status |-> "failed"]}]}

\* The recheck delay in hours that the schedule prescribes for a probe result.
C4_Hours(status, error) ==
    CASE status = "working" -> 6
      [] status = "warning" -> 7 * 24
      [] status = "failed" /\ error = "404 Not Found" -> 7 * 24
      [] status = "failed" /\ error = "Timeout" -> 1
      [] status = "failed" /\ error = "Connection refused" -> 24
      [] OTHER -> 1

\* C4: once the worker has processed a probe result for a stream, the stream's
\* stored next_check_due is the time of processing plus 6 h (working), 7 d
\* (warning), 7 d (404 / Not Found), 1 h (Timeout), 1 d (Connection refused) or
\* 1 h (any other failure).
C4_NextCheckDueSchedule ==
    lastProbe # NoProbe =>
        \A r \in streams :
            r.id = lastProbe.id =>
                r.next_check_due = lastProbe.at + C4_Hours(lastProbe.status, lastProbe.error)

\* The ids get_unchecked_streams can return now.
Selectable ==
    UNION {{found[i] : i \in 1..Len(found)} :
             found \in get_unchecked_streams(streams, hclock, BATCH_SIZE)}

\* C5: a stream the worker found working at t0 is not selected for probing
\* before t0 + 6 h (so not at t0 + 1 h), and is selected once t0 + 6 h has passed.
C5_SelectByNextCheckDue ==
    lastProbe.status = "working" =>
        /\ hclock < lastProbe.at + 6 => lastProbe.id \notin Selectable
        /\ hclock > lastProbe.at + 6 => lastProbe.id \in Selectable

Phase ==
    IF life = "start_load" THEN "Starting"
    ELSE IF life = "stop_await" THEN "Stopping"
    ELSE IF running THEN "Running"
    ELSE "Stopped"

PhaseChain ==
    {<<"Stopped", "Starting">>, <<"Starting", "Running">>,
     <<"Running", "Stopping">>, <<"Stopping", "Stopped">>}

SnapshotStep ==
    \* stop() writes the snapshot when it completes
    /\ (life = "stop_await" /\ life' = "idle")
          => (written'.by = "stop" /\ snapshot' = save_snapshot(streams))
    \* the loop writes when a fetch first returns no due stream
    /\ (worker.pc = "fetch" /\ ~full_pass_complete /\ full_pass_complete')
          => /\ <<>> \in get_unchecked_streams(streams, hclock, BATCH_SIZE)
             /\ written' = [by |-> "loop", loop_writes |-> written.loop_writes + 1]
             /\ snapshot' = save_snapshot(streams)
    \* and nothing else does: not a later empty batch, not any other step
    /\ (written' # written \/ snapshot' # snapshot)
          => \/ life = "stop_await" /\ life' = "idle"
             \/ worker.pc = "fetch" /\ ~full_pass_complete /\ full_pass_complete'
    /\ full_pass_complete => full_pass_complete'
    \* start() applies every entry of an existing snapshot, and only then
    \* creates the loop task, which has fetched nothing yet
    /\ (life = "start_load" /\ life' = "idle")
          => /\ worker.pc \in {"none", "ended"}
             /\ worker'.pc = "init_sleep"
             /\ \A e \in snapshot.streams : \A r \in streams' :
                   r.id = e.id => (r.health_status = e.health_status
                                   /\ r.health_checked_at = hclock)

BatchUpdateStep ==
    (worker.pc = "update" /\ worker' # worker)
        => /\ worker'.pc \in {"update", "batch_delay", "ended"}
           /\ \A r \in streams' :
                 r.id = Head(worker.batch)
                     => /\ r.health_status = Head(worker.results).status
                        /\ r.health_checked_at = hclock

\* C19: a failure of one probe in a batch (timeout, connection error or any
\* other exception) is a failed result for that stream and never aborts the
\* batch: every stream of the batch, the failing one included, gets its health
\* status and health_checked_at updated in the store as the batch completes.
C19_BatchNeverAborted == [][BatchUpdateStep]_vars

\* stop() has returned and start() has not been called since.
Stopped == ~running /\ life = "idle" /\ task # "none"

\* While the worker is stopped no probe result reaches the store.
StoppedStep == Stopped => (streams' = streams /\ lastProbe' = lastProbe /\ worker' = worker)

\* C21: when stop() returns the loop task has ended, no probe started by it
\* is still in flight, and no health update from a probe is written to the
\* store afterwards.
C21_StopEndsProbing ==
    /\ [](Stopped => (task = "done" /\ worker.pc = "ended" /\ ~cancel))
    /\ [][StoppedStep]_vars

\* stop() has returned after the worker ran probes.
C21_Witness ==
    /\ Stopped
    /\ written.by = "stop"
    /\ lastProbe # NoProbe
    /\ worker.pc = "ended"

\* The columns the first definition of get_unchecked_streams selects; the
\* class keeps the later definition.
unchecked_first_columns == {"id", "url", "referrer", "user_agent", "channel_id", "health_status"}

\* SELECT id, url, referrer, user_agent, channel_id: one returned row.  The
\* catalog's streams are stored without referrer and user agent.
unchecked_row(r) ==
    [id |-> r.id, url |-> r.url, referrer |-> None, user_agent |-> None,
     channel_id |-> r.channel_id]

\* The lists of dicts get_unchecked_streams(limit) can return.
get_unchecked_rows(table, now, limit) ==
    {[i \in 1..Len(found) |-> unchecked_row(CHOOSE r \in table : r.id = found[i])] :
        found \in get_unchecked_streams(table, now, limit)}

MaxLimit == 2

\* health_checked_at of the stored stream a returned row names.
checked_at(row) == (CHOOSE r \in streams : r.id = row.id).health_checked_at

\* At most limit rows, each due, never-checked ones first and the checked ones
\* oldest first, a checked one only when no never-checked one is left out.
UncheckedOrder ==
    \A limit \in 0..MaxLimit :
        \A found \in get_unchecked_rows(streams, hclock, limit) :
            /\ Len(found) <= limit
            /\ \A i \in 1..Len(found) :
                  /\ \E r \in streams : r.id = found[i].id
                  /\ checked_at(found[i]) = NULL \/ checked_at(found[i]) < hclock - 1
            /\ \A i \in 1..Len(found) : \A j \in 1..Len(found) :
                  i < j => /\ checked_at(found[j]) = NULL => checked_at(found[i]) = NULL
                           /\ checked_at(found[i]) # NULL =>
                                 checked_at(found[i]) <= checked_at(found[j])
            /\ (\E i \in 1..Len(found) : checked_at(found[i]) # NULL) =>
                  \A r \in streams :
                      r.health_checked_at = NULL => \E i \in 1..Len(found) : found[i].id = r.id

\* Each returned row has the six columns.
UncheckedColumns ==
    \A limit \in 0..MaxLimit :
        \A found \in get_unchecked_rows(streams, hclock, limit) :
            \A i \in 1..Len(found) : DOMAIN found[i] = unchecked_first_columns

\* A batch holding a checked stream behind a never-checked one can be fetched.
UncheckedMixed ==
    \E found \in get_unchecked_rows(streams, hclock, MaxLimit) :
        /\ Len(found) = 2
        /\ checked_at(found[1]) = NULL
        /\ checked_at(found[2]) # NULL

\* C33: get_unchecked_streams(limit) returns at most limit streams, each of
\* them due (never checked, or last checked longer ago than the recheck
\* floor), with every never-checked stream ahead of every previously checked
\* one and the checked ones in increasing health_checked_at order; so a
\* checked stream is in a batch only if every never-checked stream is in it
\* too.  Each returned row carries id, url, referrer, user_agent, channel_id
\* and health_status.
C33_UncheckedBatch == UncheckedOrder /\ UncheckedColumns

\* One update_stream_health call as _load_snapshot makes it (stream_id, status,
\* response_ms) on the stored stream with that id.
apply_health(stream_id, status) ==
    /\ \E r \in streams : r.id = stream_id
    /\ streams' = update_stream_health(
                      streams,
                      [stream_id |-> stream_id, status |-> status, response_ms |-> None],
                      hclock).table
    /\ lastCall' = [op |-> "update_stream_health", ids |-> {stream_id}]
    /\ UNCHANGED <<channels, notStore>>

\* The store under catalog imports, M3U imports and health updates.
ReimportNext ==
    \/ \E batch \in PlayableStreamBatches : store_streams(batch)
    \/ \E files \in PlayableM3UDirs : import_m3u_directory(files)
    \/ \E r \in streams : \E status \in {"working", "failed"} : apply_health(r.id, status)

\* An import leaves the health columns of every stream it finds stored.
ReimportStep ==
    lastCall'.op \in {"store_streams", "store_m3u_streams"} =>
        \A r \in streams : \A q \in streams' :
            q.id = r.id =>
                /\ q.health_status = r.health_status
                /\ q.health_checked_at = r.health_checked_at
                /\ q.health_error = r.health_error
                /\ q.next_check_due = r.next_check_due

\* C36: re-importing a stream that is already stored (same id) through
\* store_streams or store_m3u_streams leaves its health columns unchanged:
\* health_status, health_checked_at, health_response_ms, health_error and
\* next_check_due keep the values they had before the import.
C36_ReimportKeepsHealth == [][ReimportStep]_vars

\* The worker once started and never stopped, on a database whose queries
\* succeed: the event loop resumes the loop task whenever the sleep, query or
\* probe it waits for has returned.
health_loop ==
    \/ start_resume
    \/ initial_sleep_done
    \/ fetch_done(TRUE)
    \/ \E rs \in [1..Len(worker.batch) -> ProbeResults] : probes_done(rs)
    \/ process_result
    \/ sleep_done

HealthRunNext ==
    \/ start
    \/ start_already_running
    \/ health_loop
    \/ health_tick

\* Every stored stream has been probed and its result stored.
AllProbed ==
    \A r \in streams : r.health_status # "unknown" /\ r.health_checked_at # NULL

\* C32: no starvation: while the worker keeps running and every probe returns,
\* every stream in the store is eventually probed and gets a non-unknown
\* health status with health_checked_at set, the worker not fetching the same
\* batch again forever.
C32_NoStarvation == running ~> AllProbed

(***************************************************************************)
(* get_local_segment (routers/streams.py): serving transcoded segments     *)
(***************************************************************************)
\* A pathlib.Path is a record: whether it has a root, and its components.

\* os.getcwd(), the directory the application runs in.
cwd == <<"srv", "app">>

\* TRANSCODE_DIR = Path("data/hls_transcodes"): a relative path.
TRANSCODE_DIR == [abs |-> FALSE, parts |-> <<"data", "hls_transcodes">>]

\* path / name for a name without "/": pathlib drops a "." component and keeps "..".
joinpath(p, name) == IF name = "." THEN p ELSE [p EXCEPT !.parts = Append(@, name)]

\* Removing ".." components with the component before them (".." at the root
\* stays at the root).
RECURSIVE collapse(_, _)
collapse(done, rest) ==
    IF rest = <<>> THEN done
    ELSE IF Head(rest) = ".."
         THEN collapse(IF done = <<>> THEN <<>> ELSE SubSeq(done, 1, Len(done) - 1), Tail(rest))
         ELSE collapse(Append(done, Head(rest)), Tail(rest))

\* The path as written, neither made absolute nor normalised.
unresolved(p) == p

\* Path.resolve(): make the path absolute from the working directory and
\* normalise it (the transcode tree holds no symlinks).
resolve(p) ==
    [abs |-> TRUE, parts |-> collapse(<<>>, IF p.abs THEN p.parts ELSE cwd \o p.parts)]

\* PurePath.is_relative_to(other): same anchor, and other's components are a
\* prefix of the path's components.
is_relative_to(p, other) ==
    /\ p.abs = other.abs
    /\ Len(other.parts) <= Len(p.parts)
    /\ SubSeq(p.parts, 1, Len(other.parts)) = other.parts

\* The absolute location a path names for the operating system.
location(p) == collapse(<<>>, IF p.abs THEN p.parts ELSE cwd \o p.parts)

\* Path.exists(): the location is a file, or a directory on the way to one, or
\* one of the directories the application creates at start-up.
IsPrefix(a, b) == Len(a) <= Len(b) /\ SubSeq(b, 1, Len(a)) = a
exists(p) ==
    \/ IsPrefix(location(p), cwd \o TRANSCODE_DIR.parts)
    \/ \E f \in fs : IsPrefix(location(p), f)

NoResponse == [stream_id |-> None, filename |-> None, status |-> 0, body |-> <<>>]

LocalInit ==
    /\ fs = {}
    /\ response = NoResponse

\* GET /api/streams/{stream_id}/local/{filename}: 403 when the resolved path is
\* not relative to TRANSCODE_DIR / stream_id, 404 when the path does not exist,
\* else the file at the path is sent.
get_local_segment(stream_id, filename) ==
    LET path == joinpath(joinpath(TRANSCODE_DIR, stream_id), filename)
    IN  /\ response' =
             IF ~is_relative_to(resolve(path), joinpath(TRANSCODE_DIR, stream_id))
             THEN [stream_id |-> stream_id, filename |-> filename, status |-> 403,
                   body |-> <<>>]
             ELSE IF ~exists(path)
             THEN [stream_id |-> stream_id, filename |-> filename, status |-> 404,
                   body |-> <<>>]
             ELSE [stream_id |-> stream_id, filename |-> filename, status |-> 200,
                   body |-> location(path)]
        /\ UNCHANGED fs
        /\ UNCHANGED notLocal

\* The remuxer writes its playlist or a segment into the stream's directory.
SegmentNames == {"index.m3u8", "segment_000.ts"}
LocalStreamIds == {"s1", "s2"}
ffmpeg_write(stream_id, name) ==
    /\ fs' = fs \cup {cwd \o TRANSCODE_DIR.parts \o <<stream_id, name>>}
    /\ UNCHANGED response
    /\ UNCHANGED notLocal

\* shutil.rmtree(stream_dir) in start_transcode, stop_transcode and the sweep.
rmtree(stream_id) ==
    /\ \E f \in fs : IsPrefix(cwd \o TRANSCODE_DIR.parts \o <<stream_id>>, f)
    /\ fs' = {f \in fs : ~IsPrefix(cwd \o TRANSCODE_DIR.parts \o <<stream_id>>, f)}
    /\ UNCHANGED response
    /\ UNCHANGED notLocal

\* Path parameters are single components: names, "." and "..".
RequestStreamIds == LocalStreamIds \cup {"..", "."}
RequestFilenames == SegmentNames \cup {"..", ".", "app.db"}

LocalNext ==
    \/ \E s \in RequestStreamIds : \E f \in RequestFilenames : get_local_segment(s, f)
    \/ \E s \in LocalStreamIds : \E f \in SegmentNames : ffmpeg_write(s, f)
    \/ \E s \in LocalStreamIds : rmtree(s)

\* The location a request names lies strictly below the directory of its stream.
C7_Descendant(stream_id, filename) ==
    LET dir == collapse(<<>>, cwd \o TRANSCODE_DIR.parts \o <<stream_id>>)
        target == collapse(<<>>, cwd \o TRANSCODE_DIR.parts \o <<stream_id, filename>>)
    IN  stream_id # "." /\ filename # "." /\ IsPrefix(dir, target) /\ Len(target) > Len(dir)

\* C7: a request whose resolved path is not a descendant of the transcode
\* directory of its stream_id is answered 403 and no file is sent.
C7_TraversalRejected ==
    (response # NoResponse /\ ~C7_Descendant(response.stream_id, response.filename)) =>
        response.status = 403 /\ response.body = <<>>

\* C7 witness: a request for ".." of a stream whose directory holds segments
\* was answered 403.
C7_Witness ==
    /\ response.status = 403
    /\ response.filename = ".."
    /\ response.stream_id \in LocalStreamIds
    /\ \E f \in fs : IsPrefix(cwd \o TRANSCODE_DIR.parts \o <<response.stream_id>>, f)

\* A request answered while the named file lies directly inside the transcode
\* output directory of its stream is answered with that file.
LocalFileServed ==
    (response' # response
     /\ (cwd \o TRANSCODE_DIR.parts \o <<response'.stream_id, response'.filename>>) \in fs)
        => /\ response'.status = 200
           /\ response'.body = cwd \o TRANSCODE_DIR.parts
                                   \o <<response'.stream_id, response'.filename>>

\* C30: a request to /api/streams/{stream_id}/local/{filename} for a file that
\* exists directly inside that stream's transcode output directory is answered
\* with the file (200), not with 403 or 404.
C30_ExistingFileServed == [][LocalFileServed]_vars

(***************************************************************************)
(* StreamProxyService._rewrite_manifest (services/stream_proxy.py)         *)
(***************************************************************************)
\* A text is a sequence of tokens, each token a piece of text that the code
\* never splits; a manifest is the sequence of its lines, content.split('\n').

MaxLines == 2

\* The characters str.strip() removes.
Whitespace == {" ", "\r"}

\* str.strip(): the text without its leading and trailing whitespace.
RECURSIVE lstrip(_)
lstrip(text) ==
    IF text # <<>> /\ Head(text) \in Whitespace THEN lstrip(Tail(text)) ELSE text
RECURSIVE rstrip(_)
rstrip(text) ==
    IF text # <<>> /\ text[Len(text)] \in Whitespace
    THEN rstrip(SubSeq(text, 1, Len(text) - 1))
    ELSE text
\* The text as it stands, whitespace kept.
unstripped(text) == text
strip(text) == rstrip(lstrip(text))

\* The prefixes the code tests for that a token begins with.
Prefixes(tok) ==
    CASE tok \in {"#EXTM3U", "#EXT-X-KEY:"} -> {"#"}
      [] tok = "http://" -> {"http", "http://"}
      [] tok = "https://" -> {"http", "https://"}
      [] tok = "httpkeys" -> {"http"}
      [] OTHER -> {}

\* str.startswith(prefix)
startswith(text, prefix) == text # <<>> /\ prefix \in Prefixes(Head(text))

\* urlparse(url): scheme and netloc are the first two tokens of an absolute
\* URL, the path is the rest.
urlparse(url) == [scheme |-> url[1], netloc |-> url[2], path |-> SubSeq(url, 3, Len(url))]

\* '/'.join(path.split('/')[:-1]): the path up to its last "/", without it.
RECURSIVE dirname(_)
dirname(path) ==
    IF path = <<>> THEN <<>>
    ELSE IF path[Len(path)] = "/" THEN SubSeq(path, 1, Len(path) - 1)
    ELSE dirname(SubSeq(path, 1, Len(path) - 1))

\* f"{parsed.scheme}://{parsed.netloc}{dirname}/"
url_base_of(original_url) ==
    LET parsed == urlparse(original_url)
    IN <<parsed.scheme, parsed.netloc>> \o dirname(parsed.path) \o <<"/">>

\* The names of a path, its "/" separators dropped.
segments(path) == SelectSeq(path, LAMBDA tok : tok # "/")

\* A path written from its names: "/" before each name.
RECURSIVE path_of(_)
path_of(names) ==
    IF names = <<>> THEN <<>> ELSE <<"/", Head(names)>> \o path_of(Tail(names))

\* urllib.parse.urljoin(base, ref): a reference with a scheme is the result;
\* a reference from the root replaces the base's path; any other reference is
\* appended to the base's directory; ".." segments are then removed.
urljoin(base, ref) ==
    IF startswith(ref, "http://") \/ startswith(ref, "https://") THEN ref
    ELSE LET b == urlparse(base)
             merged == IF ref # <<>> /\ Head(ref) = "/" THEN ref ELSE b.path \o ref
         IN <<b.scheme, b.netloc>> \o path_of(collapse(<<>>, segments(merged)))

\* base64.urlsafe_b64encode(text.encode()).decode(): one token of the
\* base64 alphabet, a function of the whole text.
urlsafe_b64encode(text) == <<"b64[" \o join(text) \o "]">>

\* f"{base_url}/api/streams/{stream_id}/segment/{encoded_url}"
proxy_url_of(base_url, stream_id, url) ==
    <<base_url, "/api/streams/", stream_id, "/segment/">> \o urlsafe_b64encode(url)

\* 'URI="' in line
has_URI(line) == \E i \in 1..Len(line) : line[i] = "URI=\""

\* The match of r'URI="([^"]+)"' that starts at token i: the index of the
\* closing quote, 0 when the pattern does not match there.
match_at(line, i) ==
    IF /\ i + 2 <= Len(line)
       /\ line[i] = "URI=\""
       /\ \E j \in (i + 2)..Len(line) :
             /\ line[j] = "\""
             /\ \A k \in (i + 1)..(j - 1) : line[k] \notin {"\"", "URI=\""}
    THEN CHOOSE j \in (i + 2)..Len(line) :
             /\ line[j] = "\""
             /\ \A k \in (i + 1)..(j - 1) : line[k] \notin {"\"", "URI=\""}
    ELSE 0

\* re.search(pattern, line): the first token a match starts at, 0 for None.
re_search(line) ==
    IF \E i \in 1..Len(line) : match_at(line, i) > 0
    THEN CHOOSE i \in 1..Len(line) :
             match_at(line, i) > 0 /\ \A k \in 1..(i - 1) : match_at(line, k) = 0
    ELSE 0

\* re.sub(pattern, repl, line): every match, from the left, becomes repl.
RECURSIVE re_sub(_, _)
re_sub(repl, line) ==
    LET i == re_search(line)
    IN IF i = 0 THEN line
       ELSE SubSeq(line, 1, i - 1) \o repl
                \o re_sub(repl, SubSeq(line, match_at(line, i) + 1, Len(line)))

\* _rewrite_uri_attribute(line, url_base, stream_id, base_url)
rewrite_uri_attribute(line, url_base, stream_id, base_url) ==
    LET i == re_search(line)
    IN IF i = 0 THEN line
       ELSE LET group1 == SubSeq(line, i + 1, match_at(line, i) - 1)
                uri == IF ~startswith(group1, "http") THEN urljoin(url_base, group1)
                       ELSE group1
                proxy_url == proxy_url_of(base_url, stream_id, uri)
            IN re_sub(<<"URI=\"">> \o proxy_url \o <<"\"">>, line)

\* The body of the loop over the lines of _rewrite_manifest.
rewrite_line(raw, url_base, stream_id, base_url) ==
    LET line == strip(raw)
    IN IF line = <<>> THEN line
       ELSE IF startswith(line, "#")
            THEN IF has_URI(line)
                 THEN rewrite_uri_attribute(line, url_base, stream_id, base_url)
                 ELSE line
            ELSE LET full_url == IF startswith(line, "http://") \/ startswith(line, "https://")
                                 THEN line
                                 ELSE urljoin(url_base, line)
                 IN proxy_url_of(base_url, stream_id, full_url)

\* _rewrite_manifest(content, original_url, stream_id, base_url): the lines of
\* the result, which '\n'.join() puts together.
rewrite_manifest(content, original_url, stream_id, base_url) ==
    [i \in 1..Len(content) |->
        rewrite_line(content[i], url_base_of(original_url), stream_id, base_url)]

\* ---- the calls the model makes
OriginUrls ==
    { <<"http://", "o.example", "/", "live", "/", "master.m3u8">>,
      <<"https://", "o.example", "/", "master.m3u8">> }
ManifestStreamIds == {"sid"}
BaseUrls == {"http://api"}

References ==
    { <<"seg.ts">>,
      <<"..", "/", "seg.ts">>,
      <<"/", "abs", "/", "seg.ts">>,
      <<"https://", "cdn.example", "/", "seg.ts">>,
      <<"httpkeys", "/", "k.bin">> }

LineBodies ==
    { <<>>, <<"#EXTM3U">>, <<"#EXT-X-KEY:", "URI=\"", "\"">> }
    \cup References
    \cup { <<"#EXT-X-KEY:", "URI=\"">> \o r \o <<"\"">> : r \in References }
    \cup { <<"#EXT-X-KEY:", "URI=\"", "k1.bin", "\"", ",", "URI=\"", "k2.bin", "\"">> }

ManifestLines == LineBodies \cup { <<" ">> \o body \o <<"\r">> : body \in LineBodies }

Manifests == ListsUpTo(ManifestLines, MaxLines)

\* No call of _rewrite_manifest in progress.
NoRewrite ==
    [pc |-> "idle", content |-> <<>>, original_url |-> <<>>, stream_id |-> None,
     base_url |-> None, out |-> <<>>]

ManifestInit == rewrite = NoRewrite

\* A call of _rewrite_manifest with its arguments bound, its body not run yet.
ManifestCalls ==
    [pc : {"call"}, content : Manifests, original_url : OriginUrls,
     stream_id : ManifestStreamIds, base_url : BaseUrls, out : {<<>>}]

\* The call runs to its return statement.
call_rewrite_manifest ==
    /\ rewrite.pc = "call"
    /\ rewrite' = [rewrite EXCEPT
                       !.pc = "return",
                       !.out = rewrite_manifest(rewrite.content, rewrite.original_url,
                                                rewrite.stream_id, rewrite.base_url)]
    /\ UNCHANGED notManifest

\* The body of the loop over the lines of _rewrite_nested_manifest.
rewrite_nested_line(raw, url_base, stream_id, base_url) ==
    LET line == strip(raw)
    IN IF line = <<>> THEN line
       ELSE IF startswith(line, "#")
            THEN IF has_URI(line)
                 THEN rewrite_uri_attribute(line, url_base, stream_id, base_url)
                 ELSE line
            ELSE LET full_url == IF startswith(line, "http") THEN line
                                 ELSE urljoin(url_base, line)
                 IN IF base_url # "" /\ stream_id # ""
                    THEN proxy_url_of(base_url, stream_id, full_url)
                    ELSE urlsafe_b64encode(full_url)

\* _rewrite_nested_manifest(content, original_url, stream_id, base_url): the
\* lines of the result.
rewrite_nested_manifest(content, original_url, stream_id, base_url) ==
    [i \in 1..Len(content) |->
        rewrite_nested_line(content[i], url_base_of(original_url), stream_id, base_url)]

\* The same arguments given to _rewrite_nested_manifest, as proxy_segment
\* calls it for a playlist it fetched.
call_rewrite_nested_manifest ==
    /\ rewrite.pc = "call"
    /\ rewrite' = [rewrite EXCEPT
                       !.pc = "return_nested",
                       !.out = rewrite_nested_manifest(rewrite.content, rewrite.original_url,
                                                       rewrite.stream_id, rewrite.base_url)]
    /\ UNCHANGED notManifest

ManifestNext ==
    \/ call_rewrite_manifest
    \/ call_rewrite_nested_manifest

\* base64.urlsafe_b64decode(token).decode(): the text whose encoding the token
\* is, among the URLs and references of the manifests.
Encodable ==
    References \cup {<<"k1.bin">>, <<"k2.bin">>}
    \cup { urljoin(url_base_of(o), r) :
             o \in OriginUrls, r \in References \cup {<<"k1.bin">>, <<"k2.bin">>} }
urlsafe_b64decode(token) == CHOOSE text \in Encodable : urlsafe_b64encode(text) = <<token>>

\* A line of the manifest as HLS reads it: blank, a comment (a tag), or a URI.
is_blank(line) == \A i \in 1..Len(line) : line[i] \in Whitespace
is_comment(line) == ~is_blank(line) /\ startswith(lstrip(line), "#")

\* The absolute origin URL a reference of the manifest names: the reference
\* itself when it is an absolute URL, otherwise the reference resolved against
\* the directory of the manifest's URL.
is_absolute(ref) == ref # <<>> /\ Head(ref) \in {"http://", "https://"}
absolute_of(ref, original_url) ==
    IF is_absolute(ref) THEN ref ELSE urljoin(url_base_of(original_url), ref)

\* A comment line with every URI="..." attribute replaced by the proxy URL of
\* the URL the attribute names.
RECURSIVE with_proxied_URIs(_, _)
with_proxied_URIs(line, call) ==
    LET i == re_search(line)
    IN IF i = 0 THEN line
       ELSE LET j == match_at(line, i)
                uri == absolute_of(SubSeq(line, i + 1, j - 1), call.original_url)
            IN SubSeq(line, 1, i - 1)
                   \o <<"URI=\"">> \o proxy_url_of(call.base_url, call.stream_id, uri) \o <<"\"">>
                   \o with_proxied_URIs(SubSeq(line, j + 1, Len(line)), call)

\* Line i of the result is the proxy URL of the absolute origin URL of line i
\* of the manifest.
IsProxyLine(i) ==
    LET o == rewrite.out[i]
    IN /\ Len(o) = 5
       /\ SubSeq(o, 1, 4) = <<rewrite.base_url, "/api/streams/", rewrite.stream_id, "/segment/">>
       /\ \E text \in Encodable : urlsafe_b64encode(text) = <<o[5]>>
       /\ urlsafe_b64decode(o[5]) = absolute_of(strip(rewrite.content[i]), rewrite.original_url)

\* C13: manifest round-trip. After _rewrite_manifest returns, every line of the
\* result that is neither blank nor a comment is base_url + '/api/streams/' +
\* stream_id + '/segment/' + E, where decoding E gives the absolute origin URL
\* of the same line of the input (the line itself if it is absolute, otherwise
\* the line resolved against the directory of the origin URL); and every
\* comment line is the input line (surrounding whitespace aside) with each
\* URI="..." attribute replaced by the proxy URL of the resolved URI.
C13_ManifestRoundTrip ==
    rewrite.pc = "return" =>
        \A i \in 1..Len(rewrite.content) :
            /\ (~is_blank(rewrite.content[i]) /\ ~is_comment(rewrite.content[i]))
                   => IsProxyLine(i)
            /\ is_comment(rewrite.content[i])
                   => rewrite.out[i] = with_proxied_URIs(strip(rewrite.content[i]), rewrite)

\* The line structure of the result: as many lines as the manifest, line i
\* blank when line i of the manifest is blank and a comment when it is one.
SameLineStructure ==
    /\ Len(rewrite.out) = Len(rewrite.content)
    /\ \A i \in 1..Len(rewrite.content) :
          /\ is_blank(rewrite.out[i]) <=> is_blank(rewrite.content[i])
          /\ is_comment(rewrite.out[i]) <=> is_comment(rewrite.content[i])

C38_NestedEqualsTopLevel ==
    (rewrite.pc = "return_nested" /\ rewrite.stream_id # "" /\ rewrite.base_url # "") =>
        rewrite.out = rewrite_manifest(rewrite.content, rewrite.original_url,
                                       rewrite.stream_id, rewrite.base_url)

(***************************************************************************)
(* HealthWorker._test_stream (services/health_worker.py)                   *)
(***************************************************************************)
\* str(e)[:100]: the number of characters of the message the result keeps.
ERROR_CHARS == 100

\* The streams a probe is called with: the url, and the optional user_agent
\* and referrer columns.
ProbeStreams == [url : {"http://x/a"}, user_agent : {None, "UA"}, referrer : {None, "http://ref"}]

\* A text of n characters.
chars(n) == [i \in 1..n |-> "c"]

\* What a request of the probe can end in: a response with a status code, or
\* an exception raised by httpx (or by anything else) with its message.
ProbeStatuses == {200, 206, 403, 404, 405, 451, 500, 503}
ProbeResponse(code) == [kind |-> "response", status_code |-> code, message |-> <<>>]
ProbeRaise(kind, n) == [kind |-> kind, status_code |-> 0, message |-> chars(n)]
MessageLengths == {0, ERROR_CHARS - 1, ERROR_CHARS, ERROR_CHARS + 1}
ProbeOutcomes ==
    {ProbeResponse(code) : code \in ProbeStatuses}
    \cup {ProbeRaise("TimeoutException", 0), ProbeRaise("ConnectError", 0)}
    \cup {ProbeRaise("Exception", n) : n \in MessageLengths}

\* headers: the User-Agent (the browser default when the stream has none) and
\* the Referer when the stream has a referrer.
probe_headers(stream) ==
    [User_Agent |-> IF stream.user_agent # None THEN stream.user_agent ELSE "Mozilla/5.0",
     Referer |-> stream.referrer,
     Range |-> None]

\* The return value for a response: by response.status_code.
classify_response(status_code) ==
    IF status_code \in {200, 206}
    THEN [status |-> "working", response_ms |-> "elapsed_ms", error |-> <<>>]
    ELSE IF status_code = 403
    THEN [status |-> "warning", response_ms |-> "elapsed_ms",
          error |-> <<"403 Forbidden (possible geo-block)">>]
    ELSE IF status_code = 404
    THEN [status |-> "failed", response_ms |-> None, error |-> <<"404 Not Found">>]
    ELSE [status |-> "failed", response_ms |-> None,
          error |-> <<"HTTP ", ToString(status_code)>>]

\* The message of the exception kept whole.
whole_message(outcome) ==
    [status |-> "failed", response_ms |-> None, error |-> outcome.message]

\* The return value of the except clauses.
classify_exception(outcome) ==
    [status |-> "failed", response_ms |-> None,
     error |-> CASE outcome.kind = "TimeoutException" -> <<"Timeout">>
                 [] outcome.kind = "ConnectError" -> <<"Connection refused">>
                 [] OTHER -> SubSeq(outcome.message, 1,
                                    IF Len(outcome.message) < ERROR_CHARS
                                    THEN Len(outcome.message) ELSE ERROR_CHARS)]

NoResult == [status |-> "none", response_ms |-> None, error |-> <<>>]

\* No _test_stream call in progress.
ProbeInit ==
    probe = [pc |-> "idle", stream |-> [url |-> None, user_agent |-> None, referrer |-> None],
             sent |-> <<>>, got |-> <<>>, result |-> NoResult]

\* _test_stream(stream) is called: the headers are built and the client opened.
test_stream(stream) ==
    /\ probe.pc = "idle"
    /\ probe' = [pc |-> "head", stream |-> stream, sent |-> <<>>, got |-> <<>>,
                 result |-> NoResult]
    /\ UNCHANGED notProbe

\* await client.head(url, headers=headers), and everything after it that does
\* not wait: the return value, unless the status is 405.
client_head(outcome) ==
    /\ probe.pc = "head"
    /\ LET request == [method |-> "HEAD", url |-> probe.stream.url,
                       headers |-> probe_headers(probe.stream)]
       IN probe' =
            [probe EXCEPT
               !.sent = Append(@, request),
               !.got = Append(@, outcome),
               !.pc = IF outcome.kind = "response" /\ outcome.status_code = 405
                      THEN "get" ELSE "return",
               !.result = IF outcome.kind # "response" THEN classify_exception(outcome)
                          ELSE IF outcome.status_code = 405 THEN NoResult
                          ELSE classify_response(outcome.status_code)]
    /\ UNCHANGED notProbe

\* await client.get(url, headers={**headers, "Range": "bytes=0-0"}) and the
\* return value from its outcome.
client_get(outcome) ==
    /\ probe.pc = "get"
    /\ LET request == [method |-> "GET", url |-> probe.stream.url,
                       headers |-> [probe_headers(probe.stream) EXCEPT !.Range = "bytes=0-0"]]
       IN probe' =
            [probe EXCEPT
               !.sent = Append(@, request),
               !.got = Append(@, outcome),
               !.pc = "return",
               !.result = IF outcome.kind # "response" THEN classify_exception(outcome)
                          ELSE classify_response(outcome.status_code)]
    /\ UNCHANGED notProbe

ProbeNext ==
    \/ \E stream \in ProbeStreams : test_stream(stream)
    \/ \E outcome \in ProbeOutcomes : client_head(outcome)
    \/ \E outcome \in ProbeOutcomes : client_get(outcome)

\* The outcome the probe classifies: that of the last request it sent.
FinalOutcome == probe.got[Len(probe.got)]

\* C15: a returned probe classifies the stream from its final outcome: status
\* 200 or 206 gives working; 403 gives warning with error '403 Forbidden
\* (possible geo-block)'; 404 gives failed '404 Not Found'; any other status
\* gives failed 'HTTP <code>'; a timeout gives failed 'Timeout'; a connect
\* error gives failed 'Connection refused'; any other exception gives failed
\* with the first 100 characters of its message.  The probe sends HEAD first
\* and a ranged GET only if HEAD returned 405, and then the GET's outcome is
\* the one classified.
C15_ProbeClassification ==
    /\ probe.pc \in {"get", "return"} => probe.sent[1].method = "HEAD"
    /\ \A i \in 2..Len(probe.sent) :
          /\ i = 2
          /\ probe.sent[i].method = "GET"
          /\ probe.sent[i].headers.Range = "bytes=0-0"
          /\ probe.got[1] = ProbeResponse(405)
    /\ probe.pc = "return" =>
          LET o == FinalOutcome
              r == probe.result
          IN /\ (probe.got[1] = ProbeResponse(405)) => Len(probe.sent) = 2
             /\ o.kind = "response" =>
                   /\ o.status_code \in {200, 206} => r.status = "working" /\ r.error = <<>>
                   /\ o.status_code = 403 =>
                         r.status = "warning"
                         /\ r.error = <<"403 Forbidden (possible geo-block)">>
                   /\ o.status_code = 404 =>
                         r.status = "failed" /\ r.error = <<"404 Not Found">>
                   /\ o.status_code \notin {200, 206, 403, 404} =>
                         r.status = "failed"
                         /\ r.error = <<"HTTP ", ToString(o.status_code)>>
             /\ o.kind = "TimeoutException" =>
                   r.status = "failed" /\ r.error = <<"Timeout">>
             /\ o.kind = "ConnectError" =>
                   r.status = "failed" /\ r.error = <<"Connection refused">>
             /\ o.kind = "Exception" =>
                   /\ r.status = "failed"
                   /\ Len(r.error) <= 100
                   /\ Len(r.error) = 100 \/ Len(r.error) = Len(o.message)
                   /\ r.error = SubSeq(o.message, 1, Len(r.error))

\* A probe whose HEAD was answered 405 and whose ranged GET raised an exception
\* with a message of more than 100 characters has returned.
C15_Witness ==
    /\ probe.pc = "return"
    /\ Len(probe.sent) = 2
    /\ probe.got[1] = ProbeResponse(405)
    /\ probe.got[2].kind = "Exception"
    /\ Len(probe.got[2].message) > 100

SegmentUrls ==
    { <<"https://", "cdn.example", "/", "seg.ts">>,
      <<"https://", "cdn.example", "/", "mid.m3u8">>,
      <<"seg.ts">> }

\* The encoded_url path parameters: encodings, and texts that are no encoding
\* (padding missing, bytes that are not UTF-8, characters outside the alphabet).
EncodedUrls ==
    {urlsafe_b64encode(u)[1] : u \in SegmentUrls} \cup {"aHR0cDovL3gvYQ", "_w==", "!!!!"}

\* A decoder that raises for nothing and gives the empty text.
decode_ignoring_errors(encoded_url) == [raised |-> FALSE, text |-> <<>>]

\* base64.urlsafe_b64decode(encoded_url).decode(): binascii.Error for a wrong
\* padding, UnicodeDecodeError for bytes that are not UTF-8; characters outside
\* the alphabet are discarded, which leaves the empty text for "!!!!".
decode_segment_url(encoded_url) ==
    CASE encoded_url = "aHR0cDovL3gvYQ" -> [raised |-> TRUE, text |-> <<>>]
      [] encoded_url = "_w==" -> [raised |-> TRUE, text |-> <<>>]
      [] encoded_url = "!!!!" -> [raised |-> FALSE, text |-> <<>>]
      [] OTHER -> [raised |-> FALSE,
                   text |-> CHOOSE u \in SegmentUrls : urlsafe_b64encode(u) = <<encoded_url>>]

\* get_stream_info(stream_id): the stream's row, None for an unknown stream_id.
SegmentStreams ==
    [id : {"s1"}, user_agent : {None, "UA"}, referrer : {None, "http://ref"}]
NoStreamRow == [id |-> None, user_agent |-> None, referrer |-> None]

\* _build_headers(stream)
build_headers(stream) ==
    [User_Agent |-> IF stream.user_agent # None THEN stream.user_agent ELSE "Mozilla/5.0",
     Referer |-> stream.referrer]

\* What the upstream GET can end in: a response (status and content type), a
\* timeout, or another exception.
SegmentStatuses == {200, 206, 403, 404, 500}
SegmentOutcomes ==
    [kind : {"response"}, status_code : SegmentStatuses,
     content_type : {"video/mp2t", "application/vnd.apple.mpegurl"}]
    \cup {[kind |-> "TimeoutException", status_code |-> 0, content_type |-> None],
          [kind |-> "Exception", status_code |-> 0, content_type |-> None]}

NoSegmentOutcome == [kind |-> "none", status_code |-> 0, content_type |-> None]

\* sent and got are history: the upstream requests and how the last one ended.
NoSegmentRequest ==
    [pc |-> "idle", stream_id |-> None, encoded_url |-> None, stream |-> NoStreamRow,
     headers |-> [User_Agent |-> None, Referer |-> None],
     segment_url |-> <<>>, sent |-> <<>>, got |-> NoSegmentOutcome, status |-> 0,
     media_type |-> None]

SegmentInit == seg = NoSegmentRequest

\* GET /{stream_id}/segment/{encoded_url} arrives: proxy_segment is called.
proxy_segment(stream_id, encoded_url) ==
    /\ seg.pc = "idle"
    /\ seg' = [NoSegmentRequest EXCEPT
                  !.pc = "lookup", !.stream_id = stream_id, !.encoded_url = encoded_url]
    /\ UNCHANGED notSegment

\* raise HTTPException(status_code=..)
segment_raise(r, code) == [r EXCEPT !.pc = "done", !.status = code]

\* await get_stream_info(stream_id) returns; then, without waiting: 404 for no
\* stream, 400 when decoding raises, otherwise the headers are built.
proxy_segment_lookup(stream) ==
    /\ seg.pc = "lookup"
    /\ stream.id \in {None, seg.stream_id}
    /\ seg' = IF stream = NoStreamRow THEN segment_raise(seg, 404)
              ELSE LET decoded == decode_segment_url(seg.encoded_url)
                   IN IF decoded.raised THEN segment_raise([seg EXCEPT !.stream = stream], 400)
                      ELSE [seg EXCEPT !.pc = "get", !.segment_url = decoded.text,
                                       !.stream = stream,
                                       !.headers = build_headers(stream)]
    /\ UNCHANGED notSegment

\* The text ends with ".m3u8".
endswith_m3u8(url) == url # <<>> /\ url[Len(url)] = "mid.m3u8"

\* await client.get(segment_url, ...) and the rest of the handler.  httpx
\* raises UnsupportedProtocol, sending nothing, for a URL without http(s)://.
proxy_segment_get(outcome) ==
    /\ seg.pc = "get"
    /\ IF ~is_absolute(seg.segment_url)
       THEN seg' = segment_raise(seg, 500)
       ELSE LET request == [method |-> "GET", url |-> seg.segment_url, headers |-> seg.headers]
                r == [seg EXCEPT !.sent = Append(@, request), !.got = outcome]
            IN seg' =
                 CASE outcome.kind = "TimeoutException" -> segment_raise(r, 504)
                   [] outcome.kind = "Exception" -> segment_raise(r, 500)
                   [] outcome.kind = "response" /\ ~is_success(outcome.status_code) ->
                          IF outcome.status_code = 404
                          THEN segment_raise(r, 404) ELSE segment_raise(r, 502)
                   [] OTHER ->
                          [r EXCEPT
                             !.pc = "done", !.status = 200,
                             !.media_type =
                                 IF \/ outcome.content_type = "application/vnd.apple.mpegurl"
                                    \/ endswith_m3u8(seg.segment_url)
                                 THEN "application/vnd.apple.mpegurl" ELSE "video/mp2t"]
    /\ UNCHANGED notSegment

\* The response has been sent; the next request arrives at the handler.
segment_done ==
    /\ seg.pc = "done"
    /\ seg' = NoSegmentRequest
    /\ UNCHANGED notSegment

SegmentNext ==
    \/ \E stream_id \in {"s1", "s9"}, encoded_url \in EncodedUrls :
          proxy_segment(stream_id, encoded_url)
    \/ \E stream \in SegmentStreams \cup {NoStreamRow} : proxy_segment_lookup(stream)
    \/ \E outcome \in SegmentOutcomes : proxy_segment_get(outcome)
    \/ segment_done

\* The encoded_url values whose decoding raises an exception.
Undecodable == {"aHR0cDovL3gvYQ", "_w=="}

C16_WitnessUpstream ==
    /\ seg.pc = "done"
    /\ Len(seg.sent) = 1
    /\ seg.got.kind = "response"
    /\ seg.got.status_code = 500
    /\ seg.status = 502

(***************************************************************************)
(* HealthWorker._process_batch: the probes of a batch and their semaphore  *)
(***************************************************************************)
CONCURRENT_TESTS == 10

\* The number of due streams the store can hold when a batch is fetched.
MaxDue == 32

\* len(streams) for get_unchecked_streams(limit=BATCH_SIZE) on a store with
\* `due` due streams.
batch_len(due) == IF due < BATCH_SIZE THEN due ELSE BATCH_SIZE

\* The loop task is created by start(); it is about to call _process_batch.
BatchInit ==
    gate = [pc |-> "loop", streams |-> 0, semaphore |-> 0, waiting |-> 0, in_flight |-> 0,
            results |-> 0, batches |-> 0]

\* _process_batch up to asyncio.gather: with no due stream it returns False and
\* the loop sleeps; otherwise the semaphore is created and one test_with_sem
\* per stream is started, each about to enter `async with semaphore`.
process_batch(due) ==
    /\ gate.pc = "loop"
    /\ gate' = IF batch_len(due) = 0
               THEN [gate EXCEPT !.pc = "sleep"]
               ELSE [gate EXCEPT !.pc = "probing",
                                 !.streams = batch_len(due),
                                 !.semaphore = CONCURRENT_TESTS,
                                 !.waiting = batch_len(due),
                                 !.in_flight = 0,
                                 !.results = 0,
                                 !.batches = @ + 1]
    /\ UNCHANGED notBatch

\* A semaphore that never blocks.
never_locked == FALSE

\* Semaphore.locked(): no permit is left.
semaphore_locked == gate.semaphore = 0

\* `async with semaphore` is entered by one waiting test_with_sem, which then
\* awaits _test_stream: a probe is in flight.
semaphore_acquire ==
    /\ gate.pc = "probing"
    /\ gate.waiting > 0
    /\ ~semaphore_locked
    /\ gate' = [gate EXCEPT !.semaphore = @ - 1, !.waiting = @ - 1, !.in_flight = @ + 1]
    /\ UNCHANGED notBatch

\* _test_stream returns its result (it raises nothing) and the semaphore is
\* released.
test_stream_returns ==
    /\ gate.pc = "probing"
    /\ gate.in_flight > 0
    /\ gate' = [gate EXCEPT !.semaphore = @ + 1, !.in_flight = @ - 1, !.results = @ + 1]
    /\ UNCHANGED notBatch

\* asyncio.gather returns when every test_with_sem has returned; the update
\* loop follows and _process_batch ends, by return or by an exception that the
\* loop catches: either way the loop sleeps next.
gather_returns ==
    /\ gate.pc = "probing"
    /\ gate.results = gate.streams
    /\ gate' = [gate EXCEPT !.pc = "sleep", !.batches = @ - 1]
    /\ UNCHANGED notBatch

\* asyncio.sleep(BATCH_DELAY) or asyncio.sleep(30) returns.
batch_sleep_done ==
    /\ gate.pc = "sleep"
    /\ gate' = [gate EXCEPT !.pc = "loop"]
    /\ UNCHANGED notBatch

BatchNext ==
    \/ \E due \in 0..MaxDue : process_batch(due)
    \/ semaphore_acquire
    \/ test_stream_returns
    \/ gather_returns
    \/ batch_sleep_done

\* C20: while the health worker runs, at most 10 probes are in flight at any
\* moment, even when a batch holds 30 streams, and the outer loop never has two
\* batches in progress at the same time.
C20_ProbeGate ==
    /\ gate.in_flight <= 10
    /\ gate.batches <= 1
    /\ gate.pc = "probing" => gate.batches = 1
    /\ gate.waiting + gate.in_flight + gate.results = gate.streams

\* A batch of 30 streams with 10 probes in flight and others waiting for the
\* semaphore.
C20_Witness ==
    /\ gate.pc = "probing"
    /\ gate.streams = 30
    /\ gate.in_flight = 10
    /\ gate.waiting > 0

(***************************************************************************)
(* get_stream_manifest (routers/streams.py): the transcode path            *)
(***************************************************************************)
\* `for _ in range(20)`
READY_CHECKS == 20

NoStatus == NULL

\* One request: where the handler is, how many is_ready calls it has made,
\* whether start_transcode returned True, its response; and whether
\* TRANSCODE_DIR/<stream_id>/index.m3u8 exists.
PlayInit ==
    play = [pc |-> "idle", checks |-> 0, started |-> FALSE, status |-> NoStatus,
            playlist_exists |-> FALSE]

\* The loop variable does not advance.
same_check(checks) == checks

\* The next iteration of `for _ in range(20)`.
next_check(checks) == checks + 1

\* From the last get_manifest_path to the response: the playlist is read and
\* returned, or HTTP 503 is raised.
manifest_response(p) ==
    [p EXCEPT !.pc = "done", !.status = IF p.playlist_exists THEN 200 ELSE 503]

\* The handler up to the first is_ready: start_transcode starts the remuxer in
\* an emptied stream directory; when it returns False the handler raises
\* HTTP 500.
get_stream_manifest(started) ==
    /\ play.pc = "idle"
    /\ play' = IF started
               THEN [play EXCEPT !.pc = "check", !.started = TRUE]
               ELSE [play EXCEPT !.pc = "done", !.status = 500]
    /\ UNCHANGED notPlay

\* One is_ready call of the loop: on True the loop is left and the response is
\* built without suspending; otherwise the handler sleeps 0.5 s.
is_ready ==
    /\ play.pc = "check"
    /\ play' = IF play.playlist_exists
               THEN manifest_response([play EXCEPT !.checks = next_check(play.checks)])
               ELSE [play EXCEPT !.pc = "sleep", !.checks = next_check(play.checks)]
    /\ UNCHANGED notPlay

\* asyncio.sleep(0.5) returns: the next iteration, or after the last one the
\* final get_manifest_path and the response.
play_sleep_done ==
    /\ play.pc = "sleep"
    /\ play' = IF play.checks >= READY_CHECKS
               THEN manifest_response(play)
               ELSE [play EXCEPT !.pc = "check"]
    /\ UNCHANGED notPlay

\* The remuxer writes index.m3u8.
playlist_written ==
    /\ play.started
    /\ ~play.playlist_exists
    /\ play' = [play EXCEPT !.playlist_exists = TRUE]
    /\ UNCHANGED notPlay

\* The stream directory is removed (a restart of the stream, a cleanup).
playlist_removed ==
    /\ play.playlist_exists
    /\ play' = [play EXCEPT !.playlist_exists = FALSE]
    /\ UNCHANGED notPlay

PlayHandler == is_ready \/ play_sleep_done

PlayNext ==
    \/ \E started \in BOOLEAN : get_stream_manifest(started)
    \/ is_ready
    \/ play_sleep_done
    \/ playlist_written
    \/ playlist_removed

\* The response of a request whose transcoder started is the playlist exactly
\* when the file exists at that moment, and 503 otherwise.
PlayResponseStep ==
    (play.pc # "done" /\ play'.pc = "done" /\ play'.started)
        => /\ play'.status = IF play.playlist_exists THEN 200 ELSE 503
           /\ play'.status = 503 => play'.checks = READY_CHECKS

\* C24: for a stream routed to the transcoder the play.m3u8 handler terminates
\* after at most 20 readiness checks, with the playlist when the file exists by
\* then and with HTTP 503 otherwise; it never waits indefinitely.
C24_PlayTerminates ==
    /\ [](play.checks <= READY_CHECKS)
    /\ [][PlayResponseStep]_vars
    /\ (play.pc # "idle" ~> play.pc = "done")

\* The handler gave up after its 20 checks.
C24_Witness ==
    /\ play.pc = "done"
    /\ play.started
    /\ play.checks = READY_CHECKS
    /\ play.status = 503

\* The playlist appeared during the wait and was returned.
C24_WitnessPlaylist ==
    /\ play.pc = "done"
    /\ play.checks \in 2..READY_CHECKS
    /\ play.status = 200

(***************************************************************************)
(* CacheService.get / set / clear_expired (services/cache.py)              *)
(***************************************************************************)
MaxTtl == 2
MaxNow == 2

KvKeys == {"languages", "regions"}
\* The JSON documents the sync service caches.
KvValues == {"[]", "[{}]"}

\* json.dumps and json.loads of a cached document.
json_dumps(value) == "json:" \o value
json_loads(text) == CHOOSE value \in KvValues : json_dumps(value) = text

\* A key without a row, and a key that was never set.
NoRow == [value |-> None, expires_at |-> NULL]

\* utcnow().isoformat() strings of one length order as their instants do; the
\* instants are counted in seconds.
KvInit ==
    kv = [cache |-> [k \in KvKeys |-> NoRow],
          now |-> 0,
          latest |-> [k \in KvKeys |-> NoRow],
          got |-> [key |-> None, result |-> None, at |-> NULL]]

\* Every row passes.
any_row(expires_at, now) == TRUE

\* `expires_at > ?` with utcnow() of the read.
unexpired(expires_at, now) == expires_at > now

\* get(key): the row's value, parsed, when the key has a row that is not
\* expired; None otherwise.
kv_get(key) ==
    /\ kv' = [kv EXCEPT !.got =
                [key |-> key,
                 result |-> IF kv.cache[key] # NoRow
                               /\ unexpired(kv.cache[key].expires_at, kv.now)
                            THEN json_loads(kv.cache[key].value)
                            ELSE None,
                 at |-> kv.now]]
    /\ UNCHANGED notKv

\* set(key, value, ttl_seconds): INSERT OR REPLACE on the primary key.
kv_set(key, value, ttl_seconds) ==
    /\ LET row == [value |-> json_dumps(value), expires_at |-> kv.now + ttl_seconds]
       IN  kv' = [kv EXCEPT !.cache[key] = row,
                            !.latest[key] = [value |-> value, expires_at |-> row.expires_at]]
    /\ UNCHANGED notKv

\* clear_expired(): DELETE FROM cache WHERE expires_at < utcnow().
clear_expired ==
    /\ kv' = [kv EXCEPT !.cache = [k \in KvKeys |->
                  IF kv.cache[k] # NoRow /\ kv.cache[k].expires_at < kv.now
                  THEN NoRow ELSE kv.cache[k]]]
    /\ UNCHANGED notKv

kv_tick ==
    /\ kv.now < MaxNow
    /\ kv' = [kv EXCEPT !.now = kv.now + 1]
    /\ UNCHANGED notKv

KvNext ==
    \/ \E key \in KvKeys : kv_get(key)
    \/ \E key \in KvKeys, value \in KvValues, ttl \in 0..MaxTtl : kv_set(key, value, ttl)
    \/ clear_expired
    \/ kv_tick

\* What get would answer for a key in the current state.
WouldGet(k) ==
    IF kv.latest[k] # NoRow /\ kv.now < kv.latest[k].expires_at
    THEN kv.latest[k].value ELSE None

\* A row is removed only when get no longer returns it.
ClearStep ==
    \A k \in KvKeys :
        (kv.cache[k] # NoRow /\ kv'.cache[k] = NoRow) => WouldGet(k) = None

\* A read answers with the value of the key's latest set while that set's
\* expiry is ahead, and with None otherwise.
GetStep ==
    \A k \in KvKeys :
        (kv'.got # kv.got /\ kv'.got.key = k) => kv'.got.result = WouldGet(k)

\* C25: KV reads never return an expired entry: after set(key, value, ttl),
\* get(key) returns value while now < expires_at and None once now >=
\* expires_at, whether or not clear_expired has run; a later set for the key
\* replaces value and expiry; clear_expired removes only entries that get
\* would no longer return.
C25_KvExpiry == [][GetStep]_vars /\ [][ClearStep]_vars

\* A read after the expiry of an entry that clear_expired has not removed.
C25_Witness ==
    /\ kv.got.key # None
    /\ kv.got.result = None
    /\ kv.cache[kv.got.key] # NoRow
    /\ kv.cache[kv.got.key].expires_at <= kv.got.at
    /\ kv.now = kv.got.at

\* A read of a live entry that replaced an earlier value of the key.
C25_WitnessValue ==
    /\ kv.got.key # None
    /\ kv.got.result = "[{}]"
    /\ kv.now = kv.got.at
    /\ kv.now > 0

(***************************************************************************)
(* trigger_sync (routers/channels.py) with DataSyncService.sync_all        *)
(***************************************************************************)
\* The endpoints sync_all fetches, in its order.
SyncEndpoints == <<"channels", "streams", "logos", "categories", "countries",
                   "languages", "regions", "guides", "feeds">>

\* IPTV_ADMIN_API_KEY values, and the X-Admin-Key values of requests (None: no
\* X-Admin-Key parameter).
AdminSecrets == {"dev-admin-key", "s3cret"}
SuppliedKeys == AdminSecrets \cup {None, ""}

SyncInit ==
    sync = [admin_api_key |-> None, pc |-> "idle", x_admin_key |-> None,
            fetched |-> 0, stored |-> {}, status |-> NoStatus]

\* get_settings() the first time: the settings are read from the environment.
get_settings(secret) ==
    /\ sync.admin_api_key = None
    /\ sync' = [sync EXCEPT !.admin_api_key = secret]
    /\ UNCHANGED notSync

\* Only a request without a key is turned away.
missing_key(x_admin_key, admin_api_key) == x_admin_key = None

\* `x_admin_key != settings.admin_api_key`
key_rejected(x_admin_key, admin_api_key) == x_admin_key # admin_api_key

\* POST /api/sync up to the call of sync_all: 401 unless the key is the
\* configured one.
trigger_sync(x_admin_key) ==
    /\ sync.admin_api_key # None
    /\ sync.pc \in {"idle", "done"}
    /\ sync' = IF key_rejected(x_admin_key, sync.admin_api_key)
               THEN [sync EXCEPT !.pc = "done", !.x_admin_key = x_admin_key,
                                 !.fetched = 0, !.stored = {}, !.status = 401]
               ELSE [sync EXCEPT !.pc = "sync_all", !.x_admin_key = x_admin_key,
                                 !.fetched = 0, !.stored = {}, !.status = NoStatus]
    /\ UNCHANGED notSync

\* sync_all: the next endpoint is fetched and, when it returned data, stored.
fetch_endpoint(data) ==
    /\ sync.pc = "sync_all"
    /\ sync.fetched < Len(SyncEndpoints)
    /\ sync' = [sync EXCEPT !.fetched = sync.fetched + 1,
                            !.stored = IF data
                                       THEN sync.stored \cup {SyncEndpoints[sync.fetched + 1]}
                                       ELSE sync.stored]
    /\ UNCHANGED notSync

\* sync_all returns and the handler answers {"status": "completed", ...}.
sync_completed ==
    /\ sync.pc = "sync_all"
    /\ sync.fetched = Len(SyncEndpoints)
    /\ sync' = [sync EXCEPT !.pc = "done", !.status = 200]
    /\ UNCHANGED notSync

SyncNext ==
    \/ \E secret \in AdminSecrets : get_settings(secret)
    \/ \E x_admin_key \in SuppliedKeys : trigger_sync(x_admin_key)
    \/ \E data \in BOOLEAN : fetch_endpoint(data)
    \/ sync_completed

\* C26: POST /api/sync runs sync_all only when the supplied X-Admin-Key equals
\* the configured admin secret; a request with a missing or different key gets
\* 401 and causes no fetch and no change to the store.
C26_SyncNeedsKey ==
    /\ (sync.pc = "sync_all" \/ sync.fetched > 0 \/ sync.stored # {} \/ sync.status = 200)
          => sync.x_admin_key = sync.admin_api_key
    /\ (sync.pc = "done" /\ sync.x_admin_key # sync.admin_api_key)
          => (sync.status = 401 /\ sync.fetched = 0 /\ sync.stored = {})

\* A request with another key was turned away after a sync had run.
C26_Witness ==
    /\ sync.pc = "done"
    /\ sync.status = 401
    /\ sync.x_admin_key \in AdminSecrets
    /\ sync.x_admin_key # sync.admin_api_key

\* A request with the configured key ran the sync.
C26_WitnessSync ==
    /\ sync.pc = "done"
    /\ sync.status = 200
    /\ sync.stored # {}

(***************************************************************************)
(* EPGMapper (services/epg_mapping.py)                                     *)
(* An id is a sequence of tokens: parts of the name, ".", the country,     *)
(* "@" and the feed.                                                       *)
(***************************************************************************)
NoId == <<None>>

NameTokens == {"ABC", "KACV", "UnknownXYZ"}
Digits == {"1"}
Countries == {"us", "zz"}
Feeds == {"East", "SD"}

\* re.IGNORECASE: the tokens that differ in case only become one.
ignorecase(token) ==
    CASE token = "dt" -> "DT"
      [] token = "hd" -> "HD"
      [] OTHER -> token

\* The first index of a token in a text, 0 when it is not there.
find(text, token) ==
    IF \E i \in 1..Len(text) : text[i] = token
    THEN CHOOSE i \in 1..Len(text) : text[i] = token /\ \A j \in 1..(i - 1) : text[j] # token
    ELSE 0

\* The last index of a token in a text, 0 when it is not there.
rfind(text, token) ==
    IF \E i \in 1..Len(text) : text[i] = token
    THEN CHOOSE i \in 1..Len(text) :
            text[i] = token /\ \A j \in (i + 1)..Len(text) : text[j] # token
    ELSE 0

\* epg_channel_id.split('@')[0]
split_feed(id) ==
    IF find(id, "@") = 0 THEN id ELSE SubSeq(id, 1, find(id, "@") - 1)

\* The name part is returned as it is.
unsimplified(name_part) == name_part

\* re.sub(r'(DT\d?|HD|SD)$', '', name_part, flags=re.IGNORECASE)
simplify(name_part) ==
    LET n == Len(name_part)
    IN  IF n >= 2 /\ ignorecase(name_part[n - 1]) = "DT" /\ name_part[n] \in Digits
        THEN SubSeq(name_part, 1, n - 2)
        ELSE IF n >= 1 /\ ignorecase(name_part[n]) \in {"DT", "HD", "SD"}
             THEN SubSeq(name_part, 1, n - 1)
             ELSE name_part

\* map_channel_id(epg_channel_id) over the ids of _channel_cache.
map_channel_id(epg_channel_id, channel_cache) ==
    IF epg_channel_id = <<>> THEN NoId
    ELSE IF epg_channel_id \in channel_cache THEN epg_channel_id
    ELSE LET base_id == split_feed(epg_channel_id)
             dot == rfind(base_id, ".")
             name_part == SubSeq(base_id, 1, dot - 1)
             country == SubSeq(base_id, dot + 1, Len(base_id))
             simple_id == simplify(name_part) \o <<".">> \o country
         IN  IF base_id \in channel_cache THEN base_id
             ELSE IF dot # 0 /\ simplify(name_part) # name_part /\ simple_id \in channel_cache
                  THEN simple_id
                  ELSE NoId

\* The XMLTV ids of the calls: a name, a designation after it or none, a
\* country or none, a feed or none; and the empty id.
NameParts ==
    UNION {{<<n>>, <<n, "DT">>, <<n, "HD">>, <<n, "hd">>, <<n, "SD">>, <<n, "DT", "1">>,
            <<n, "1">>} : n \in NameTokens}
EpgIds ==
    {<<>>} \cup
    {n \o c \o f : n \in NameParts,
                   c \in {<<>>} \cup {<<".", x>> : x \in Countries},
                   f \in {<<>>} \cup {<<"@", x>> : x \in Feeds}}

\* The ids of the catalog: iptv-org ids are <name>.<country>.
CatalogIds == {<<"ABC", ".", "us">>, <<"KACV", ".", "us">>, <<"KACV", "DT", ".", "us">>}

NoMapping == [pc |-> "idle", epg_id |-> <<>>, channel_cache |-> {}, name_index |-> <<>>,
              result |-> NoId]

MapperInit == mapper = NoMapping

\* The calls: map_channel_id of an id against a loaded catalog.
MapCalls ==
    {[NoMapping EXCEPT !.pc = "map", !.epg_id = id, !.channel_cache = cat] :
        id \in EpgIds, cat \in SUBSET CatalogIds}

call_map_channel_id ==
    /\ mapper.pc = "map"
    /\ mapper' = [mapper EXCEPT !.pc = "mapped",
                                !.result = map_channel_id(mapper.epg_id, mapper.channel_cache)]
    /\ UNCHANGED notMapper

\* The id without its '@feed' suffix.
WithoutFeed(id) ==
    CHOOSE base \in {SubSeq(id, 1, n) : n \in 0..Len(id)} :
        /\ \A i \in 1..Len(base) : base[i] # "@"
        /\ base = id \/ id[Len(base) + 1] = "@"

\* The designations DT, DT<digit>, HD and SD, in either case.
Designations ==
    {<<d>> : d \in {"DT", "dt", "HD", "hd", "SD", "sd"}}
        \cup {<<d, n>> : d \in {"DT", "dt"}, n \in Digits}

\* The catalog ids that are base without a designation at the end of its
\* channel part.
WithoutDesignation(base, channel_cache) ==
    {x \in channel_cache :
        \E i \in 1..Len(x), d \in Designations :
            /\ x[i] = "."
            /\ \A j \in (i + 1)..Len(x) : x[j] # "."
            /\ base = SubSeq(x, 1, i - 1) \o d \o SubSeq(x, i, Len(x))}

\* The catalog id the three equality strategies give an id, NoId when none.
DirectMatch(id, cat) ==
    IF id \in cat THEN id
    ELSE IF WithoutFeed(id) \in cat THEN WithoutFeed(id)
    ELSE IF WithoutDesignation(WithoutFeed(id), cat) # {}
         THEN CHOOSE x \in WithoutDesignation(WithoutFeed(id), cat) : TRUE
         ELSE NoId

\* C28: map_channel_id returns the id itself when it is in the catalog, else
\* the id without its '@feed' suffix when that is in the catalog, else the id
\* with a trailing DT<digit>/HD/SD removed from the channel part when that is
\* in the catalog, else None; the result is None or an id of the catalog.
C28_MapChannelId ==
    mapper.pc = "mapped" =>
        LET id == mapper.epg_id
            cat == mapper.channel_cache
        IN  /\ mapper.result \in cat \cup {NoId}
            /\ mapper.result = DirectMatch(id, cat)

\* KACVDT1.us@SD was mapped to KACV.us.
C28_Witness ==
    /\ mapper.pc = "mapped"
    /\ mapper.epg_id = <<"KACV", "DT", "1", ".", "us", "@", "SD">>
    /\ mapper.result = <<"KACV", ".", "us">>

\* ABC.us@East was mapped to ABC.us.
C28_WitnessFeed ==
    /\ mapper.pc = "mapped"
    /\ mapper.epg_id = <<"ABC", ".", "us", "@", "East">>
    /\ mapper.result = <<"ABC", ".", "us">>

MaxCandidates == 2

\* SequenceMatcher ratios, in hundredths; 100 is the ratio of equal names.
Ratios == {60, 70, 80, 90, 100}

\* Scores and thresholds are floats; they are written in thousandths, so that
\* a float just under a decimal has a number of its own.
threshold_batch == 800

\* `score += 0.1`: in binary floating point 0.7 + 0.1 is 0.7999999999999999;
\* the other ratios add up to the float of their decimal sum.
add_boost(ratio) == IF ratio = 70 THEN 799 ELSE 10 * ratio + 100

\* str.lower of a token.
lower(token) ==
    CASE token = "ABC" -> "abc"
      [] token = "KACV" -> "kacv"
      [] token = "UnknownXYZ" -> "unknownxyz"
      [] token = "DT" -> "dt"
      [] token = "HD" -> "hd"
      [] token = "SD" -> "sd"
      [] OTHER -> token

\* _normalize_name: lower case, a trailing hd or sd removed.
normalize_name(name) ==
    LET low == [i \in 1..Len(name) |-> lower(name[i])]
    IN  IF Len(low) >= 1 /\ low[Len(low)] \in {"hd", "sd"}
        THEN SubSeq(low, 1, Len(low) - 1) ELSE low

\* `country and f".{country.lower()}" in channel_id.lower()`
country_in(country, channel_id) ==
    /\ country # <<>>
    /\ \E i \in 1..(Len(channel_id) - 1) :
          channel_id[i] = "." /\ <<lower(channel_id[i + 1])>> = normalize_name(country)

\* The loop of fuzzy_match_channel over the entries from i on, with the best
\* match and score so far.
RECURSIVE best_from(_, _, _, _, _, _)
best_from(name_index, i, country, threshold, best_match, best_score) ==
    IF i > Len(name_index) THEN best_match
    ELSE LET e == name_index[i]
             score == IF country_in(country, e.channel_id)
                      THEN add_boost(e.ratio) ELSE 10 * e.ratio
         IN  IF score > best_score /\ score >= threshold
             THEN best_from(name_index, i + 1, country, threshold, e.channel_id, score)
             ELSE best_from(name_index, i + 1, country, threshold, best_match, best_score)

\* The entries of the name index whose key is the normalized name, and the
\* channels whose id prefix is.
exact_name(name_index) == {i \in 1..Len(name_index) : name_index[i].ratio = 100}
alt_name(name, name_index) ==
    {i \in 1..Len(name_index) :
        LET id == name_index[i].channel_id
        IN  normalize_name(name) =
              [j \in 1..(find(id, ".") - 1) |-> lower(id[j])]}

\* fuzzy_match_channel(epg_channel_name, country, threshold)
fuzzy_match_channel(name, country, threshold, name_index) ==
    IF name = <<>> \/ name_index = <<>> \/ normalize_name(name) = <<>> THEN NoId
    ELSE IF exact_name(name_index) # {}
         THEN name_index[CHOOSE i \in exact_name(name_index) : TRUE].channel_id
    ELSE IF alt_name(name, name_index) # {}
         THEN name_index[CHOOSE i \in alt_name(name, name_index) :
                            \A j \in alt_name(name, name_index) : i <= j].channel_id
    ELSE best_from(name_index, 1, country, threshold, NoId, 0)

\* One iteration of the loop of batch_map_epg_channels, with use_fuzzy.
batch_map_epg_channel(epg_id, channel_cache, name_index) ==
    LET iptv_id == map_channel_id(epg_id, channel_cache)
        base == split_feed(epg_id)
        dot == rfind(base, ".")
        name == IF dot # 0 THEN SubSeq(base, 1, dot - 1) ELSE base
        country == IF find(epg_id, ".") # 0 THEN SubSeq(base, dot + 1, Len(base)) ELSE <<>>
    IN  IF iptv_id # NoId THEN iptv_id
        ELSE fuzzy_match_channel(name, country, threshold_batch, name_index)

\* The channels of the batch calls and the XMLTV ids they map.
FuzzyChannelIds == {<<"KACV", ".", "us">>, <<"ABC", ".", "zz">>}
BatchEpgIds == {<<"KACV", "DT", ".", "us">>, <<"UnknownXYZ", ".", "us">>, <<"UnknownXYZ">>}

\* The name indexes: an entry per channel, each with the ratio of its key to
\* the normalized name; only one key can be equal to it.
NameIndexes ==
    {ix \in UNION {[1..n -> [channel_id : FuzzyChannelIds, ratio : Ratios]] :
                      n \in 0..MaxCandidates} :
        /\ \A i, j \in 1..Len(ix) : i # j => ix[i].channel_id # ix[j].channel_id
        /\ Cardinality(exact_name(ix)) <= 1}

BatchCalls ==
    {[NoMapping EXCEPT !.pc = "batch", !.epg_id = id, !.name_index = ix,
                       !.channel_cache = {ix[i].channel_id : i \in 1..Len(ix)}] :
        id \in BatchEpgIds, ix \in NameIndexes}

call_batch_map_epg_channels ==
    /\ mapper.pc = "batch"
    /\ mapper' = [mapper EXCEPT !.pc = "batched",
                     !.result = batch_map_epg_channel(mapper.epg_id, mapper.channel_cache,
                                                      mapper.name_index)]
    /\ UNCHANGED notMapper

\* The score of entry i with the +0.10 country boost, in thousandths.
BoostedScore(call, i) ==
    10 * call.name_index[i].ratio
      + (IF \E c \in Countries :
              /\ \E k \in 1..Len(call.epg_id) : call.epg_id[k] = c
              /\ \E k \in 1..Len(call.name_index[i].channel_id) :
                    call.name_index[i].channel_id[k] = c
         THEN 100 ELSE 0)

\* The candidates whose boosted score reaches the threshold.
Candidates(call) ==
    {i \in 1..Len(call.name_index) : BoostedScore(call, i) >= threshold_batch}

\* C27: in batch mapping an XMLTV id with a direct (non-fuzzy) match is mapped
\* to it even when a fuzzy match exists; among the fuzzy candidates whose score
\* with the +0.10 country boost reaches the threshold the one with the highest
\* boosted score is chosen, and on equal scores the one seen first in the name
\* index.
C27_MapperPreference ==
    mapper.pc = "batched" =>
        LET direct == DirectMatch(mapper.epg_id, mapper.channel_cache)
            named == exact_name(mapper.name_index) \cup
                       alt_name(SubSeq(mapper.epg_id, 1, 1), mapper.name_index)
        IN  /\ direct # NoId => mapper.result = direct
            /\ (direct = NoId /\ named = {}) =>
                  IF Candidates(mapper) = {} THEN mapper.result = NoId
                  ELSE \E i \in Candidates(mapper) :
                          /\ mapper.result = mapper.name_index[i].channel_id
                          /\ \A j \in Candidates(mapper) :
                                \/ BoostedScore(mapper, j) < BoostedScore(mapper, i)
                                \/ BoostedScore(mapper, j) = BoostedScore(mapper, i) /\ i <= j

\* The result of the strategies tried in the listed order, the first hit
\* taken: the id itself, the id without its feed, the channel whose normalized
\* name or id prefix is the normalized name, the id without its designation,
\* the fuzzy match.
ListedOrder(call) ==
    LET id == call.epg_id
        cat == call.channel_cache
        ix == call.name_index
        base == WithoutFeed(id)
        dot == rfind(base, ".")
        name == IF dot # 0 THEN SubSeq(base, 1, dot - 1) ELSE base
        country == IF dot # 0 THEN SubSeq(base, dot + 1, Len(base)) ELSE <<>>
        stripped == WithoutDesignation(base, cat)
    IN  IF id \in cat THEN id
        ELSE IF base \in cat THEN base
        ELSE IF exact_name(ix) # {}
             THEN ix[CHOOSE i \in exact_name(ix) : TRUE].channel_id
        ELSE IF alt_name(name, ix) # {}
             THEN ix[CHOOSE i \in alt_name(name, ix) :
                        \A j \in alt_name(name, ix) : i <= j].channel_id
        ELSE IF stripped # {} THEN CHOOSE x \in stripped : TRUE
        ELSE best_from(ix, 1, country, threshold_batch, NoId, 0)

\* C39: when an XMLTV id is resolved in batch mapping, the strategies are
\* tried in the listed order and the first hit is returned: direct equality,
\* equality after stripping the '@feed' suffix, normalized-name / id-prefix
\* equality, equality after stripping a trailing DT<digit>/HD/SD, then fuzzy
\* similarity; when both the normalized-name strategy and the DT/HD/SD-strip
\* strategy hit with different catalog ids, the normalized-name result is
\* returned.
C39_StrategyOrder ==
    mapper.pc = "batched" => mapper.result = ListedOrder(mapper)

\* The batch calls in which no two strategies hit with different ids.
C39_SameWithoutConflict ==
    (mapper.pc = "batched"
       /\ (WithoutDesignation(WithoutFeed(mapper.epg_id), mapper.channel_cache) = {}
              \/ (exact_name(mapper.name_index) = {}
                    /\ alt_name(SubSeq(mapper.epg_id, 1, rfind(WithoutFeed(mapper.epg_id), ".") - 1),
                                mapper.name_index) = {})))
        => mapper.result = ListedOrder(mapper)

MapperCalls == MapCalls \cup BatchCalls

MapperNext ==
    \/ call_map_channel_id
    \/ call_batch_map_epg_channels


(***************************************************************************)
(* EPGParser.parse_file with CacheService.store_epg_programs               *)
(***************************************************************************)
MaxTime == 2
MaxProgrammes == 2

\* A start or stop attribute: absent, not a date, or the instant it names.
NoAttr == [kind |-> "none", clock |-> 0]
BadAttr == [kind |-> "bad", clock |-> 0]
TimeAttrs == {NoAttr, BadAttr} \cup {[kind |-> "date", clock |-> c] : c \in 0..MaxTime}

\* The <programme> elements of a file: the channel attribute may be absent.
Programmes == [channel : {None, "ABC.us"}, start : TimeAttrs, stop : TimeAttrs]
XmltvFiles == UNION {[1..n -> Programmes] : n \in 0..MaxProgrammes}

EpgInit == epg = [pc |-> "idle", file |-> <<>>, programs |-> {}]

\* The element is skipped: `not all([channel_id, start, stop])`, or
\* _parse_xmltv_date raises ValueError.
skipped(programme) ==
    \/ programme.channel = None
    \/ programme.start.kind # "date"
    \/ programme.stop.kind # "date"

\* The dictionary parse_file appends for an element; the id is the digest of
\* channel, start attribute and title.
program_of(programme) ==
    [id |-> <<programme.channel, programme.start.clock>>,
     channel_id |-> programme.channel,
     start |-> programme.start.clock,
     stop |-> programme.stop.clock]

\* store_epg_programs: INSERT OR REPLACE of each program in turn.
RECURSIVE store_epg_programs(_, _)
store_epg_programs(rows, programs) ==
    IF programs = <<>> THEN rows
    ELSE store_epg_programs(
            {r \in rows : r.id # Head(programs).id} \cup {Head(programs)},
            Tail(programs))

\* The programs list parse_file builds from the elements of the file.
RECURSIVE parsed_programs(_)
parsed_programs(file) ==
    IF file = <<>> THEN <<>>
    ELSE (IF skipped(Head(file)) THEN <<>> ELSE <<program_of(Head(file))>>)
            \o parsed_programs(Tail(file))

epg_parse_file ==
    /\ epg.pc = "parse"
    /\ epg' = [epg EXCEPT !.pc = "stored",
                          !.programs = store_epg_programs(epg.programs,
                                                          parsed_programs(epg.file))]
    /\ UNCHANGED notEpg

EpgNext ==
    \/ epg_parse_file

\* C29: every Program row stored by the XMLTV importer satisfies stop > start,
\* for every input file: a <programme> whose stop is not later than its start
\* is never stored.
C29_StopAfterStart == \A row \in epg.programs : row.stop > row.start

(***************************************************************************)
(* HealthWorker.start / stop called by several coroutines                  *)
(* (services/health_worker.py)                                             *)
(***************************************************************************)
\* The coroutines that call start() and stop(), and the loop tasks that
\* asyncio.create_task can make.
StartCallers == {1, 2}
MaxTasks == 2
LoopTasks == 1..MaxTasks
NoLoopTask == NULL
IdleBoot == [pc |-> "idle", awaiting |-> NoLoopTask]

\* A worker just constructed, before any snapshot was written.  The file
\* health_snapshot.json is absent ("none"), without stream entries ("empty")
\* or with some ("entries").
BootInit ==
    boot = [running |-> FALSE, task |-> NoLoopTask,
            loops |-> [t \in LoopTasks |-> "none"], cancelled |-> {},
            calls |-> [c \in StartCallers |-> IdleBoot],
            file |-> "none", cache_ready |-> FALSE]

\* The loop tasks that were created and have not ended.
PendingLoops == {t \in LoopTasks : boot.loops[t] = "pending"}
CreatedLoops == {t \in LoopTasks : boot.loops[t] # "none"}
LoadingCalls == {c \in StartCallers : boot.calls[c].pc = "load"}

\* _load_snapshot gives up control at an await: with a file, get_cache()
\* initialises the database on its first call, and every stream entry is one
\* update_stream_health call.  Without a file it returns at once.
load_suspends ==
    boot.file # "none" /\ (~boot.cache_ready \/ boot.file = "entries")

\* self._running = True; self._task = asyncio.create_task(self._worker_loop()).
create_loop(b) ==
    LET t == Cardinality(CreatedLoops) + 1
    IN  [b EXCEPT !.running = TRUE, !.task = t, !.loops[t] = "pending"]

\* start() while self._running: the call returns.
boot_start_running(c) ==
    /\ boot.calls[c].pc = "idle"
    /\ boot.running
    /\ UNCHANGED boot
    /\ UNCHANGED notBoot

\* start() while not self._running, up to its first suspension: either inside
\* _load_snapshot, or not at all, and then the task is created in the same step.
boot_start(c) ==
    /\ boot.calls[c].pc = "idle"
    /\ ~boot.running
    /\ Cardinality(CreatedLoops) + Cardinality(LoadingCalls) < MaxTasks
    /\ boot' = IF load_suspends
               THEN [boot EXCEPT !.calls[c].pc = "load"]
               ELSE create_loop(boot)
    /\ UNCHANGED notBoot

\* start(), from the return of _load_snapshot to its own return.
boot_start_resume(c) ==
    /\ boot.calls[c].pc = "load"
    /\ boot' = create_loop([boot EXCEPT !.calls[c] = IdleBoot, !.cache_ready = TRUE])
    /\ UNCHANGED notBoot

\* stop() up to its first suspension: _running is cleared, self._task is
\* cancelled and awaited; without a task the call goes on to _save_snapshot,
\* which waits for the database.
boot_stop(c) ==
    /\ boot.calls[c].pc = "idle"
    /\ boot' = [boot EXCEPT !.running = FALSE,
                            !.cancelled = IF boot.task = NoLoopTask THEN @
                                          ELSE @ \cup ({boot.task} \cap PendingLoops),
                            !.calls[c] = [pc |-> "stop_await", awaiting |-> boot.task]]
    /\ UNCHANGED notBoot

\* stop(), once the awaited task is done: _save_snapshot writes the file, with
\* the streams that have a health status, and the call returns.
boot_stop_resume(c, file) ==
    /\ boot.calls[c].pc = "stop_await"
    /\ boot.calls[c].awaiting # NoLoopTask => boot.loops[boot.calls[c].awaiting] = "done"
    /\ boot' = [boot EXCEPT !.calls[c] = IdleBoot, !.file = file, !.cache_ready = TRUE]
    /\ UNCHANGED notBoot

\* A loop task ends: CancelledError is delivered at its await, or `while
\* self._running` finds the flag cleared.
boot_loop_ends(t) ==
    /\ boot.loops[t] = "pending"
    /\ t \in boot.cancelled \/ ~boot.running
    /\ boot' = [boot EXCEPT !.loops[t] = "done", !.cancelled = @ \ {t}]
    /\ UNCHANGED notBoot

BootNext ==
    \/ \E c \in StartCallers : boot_start_running(c)
    \/ \E c \in StartCallers : boot_start(c)
    \/ \E c \in StartCallers : boot_start_resume(c)
    \/ \E c \in StartCallers : boot_stop(c)
    \/ \E c \in StartCallers : \E file \in {"empty", "entries"} : boot_stop_resume(c, file)
    \/ \E t \in LoopTasks : boot_loop_ends(t)

\* C34: at most one worker loop task exists at any time: a start() call made
\* while the worker is running creates no task, and two start() calls
\* interleaved at the snapshot-load await never create two loop tasks.
\* A task that stop() has cancelled and that has not ended yet is not counted.
C34_OneLoopTask == Cardinality(PendingLoops \ boot.cancelled) <= 1

HealthInit ==
    /\ TranscoderInit
    /\ ProxyInit
    /\ channels = {}
    /\ streams = store_streams_rows({}, HealthCatalog)
    /\ lastCall = NoCall
    /\ \E file \in SnapshotFiles : WorkerInit(file)
    /\ LocalInit
    /\ ManifestInit
    /\ ProbeInit
    /\ SegmentInit
    /\ BatchInit
    /\ PlayInit
    /\ KvInit
    /\ SyncInit
    /\ MapperInit
    /\ EpgInit
    /\ BootInit

\* The pure functions are checked from the calls that can be made of them.
ManifestCallInit ==
    /\ TranscoderInit
    /\ ProxyInit
    /\ StoreInit
    /\ WorkerInit(NoSnapshot)
    /\ LocalInit
    /\ rewrite \in ManifestCalls
    /\ ProbeInit
    /\ SegmentInit
    /\ BatchInit
    /\ PlayInit
    /\ KvInit
    /\ SyncInit
    /\ MapperInit
    /\ EpgInit
    /\ BootInit

MapperCallInit ==
    /\ TranscoderInit
    /\ ProxyInit
    /\ StoreInit
    /\ WorkerInit(NoSnapshot)
    /\ LocalInit
    /\ ManifestInit
    /\ ProbeInit
    /\ SegmentInit
    /\ BatchInit
    /\ PlayInit
    /\ KvInit
    /\ SyncInit
    /\ mapper \in MapperCalls
    /\ EpgInit
    /\ BootInit

EpgCallInit ==
    /\ TranscoderInit
    /\ ProxyInit
    /\ StoreInit
    /\ WorkerInit(NoSnapshot)
    /\ LocalInit
    /\ ManifestInit
    /\ ProbeInit
    /\ SegmentInit
    /\ BatchInit
    /\ PlayInit
    /\ KvInit
    /\ SyncInit
    /\ MapperInit
    /\ epg \in {[pc |-> "parse", file |-> f, programs |-> {}] : f \in XmltvFiles}
    /\ BootInit

Init ==
    /\ TranscoderInit
    /\ ProxyInit
    /\ StoreInit
    /\ WorkerInit(NoSnapshot)
    /\ LocalInit
    /\ ManifestInit
    /\ ProbeInit
    /\ SegmentInit
    /\ BatchInit
    /\ PlayInit
    /\ KvInit
    /\ SyncInit
    /\ MapperInit
    /\ EpgInit
    /\ BootInit

SpecStop == Init /\ [][StopNext]_vars
SpecTranscoder == Init /\ [][TranscoderNext]_vars
SpecProxy == Init /\ [][ProxyNext]_vars
SpecCatalog == Init /\ [][CatalogNext]_vars
SpecImport == Init /\ [][ImportNext]_vars
SpecPlayable == Init /\ [][PlayableNext]_vars
SpecSyncAll == Init /\ [][SyncAllNext]_vars
SpecHealth == HealthInit /\ [][HealthNext]_vars
SpecReimport == Init /\ [][ReimportNext]_vars
SpecHealthRun == HealthInit /\ [][HealthRunNext]_vars /\ WF_vars(health_loop)
SpecLocal == Init /\ [][LocalNext]_vars
SpecManifest == ManifestCallInit /\ [][ManifestNext]_vars
SpecProbe == Init /\ [][ProbeNext]_vars
SpecSegment == Init /\ [][SegmentNext]_vars
SpecBatch == Init /\ [][BatchNext]_vars
SpecPlay == Init /\ [][PlayNext]_vars /\ WF_vars(PlayHandler)
SpecKv == Init /\ [][KvNext]_vars
SpecSync == Init /\ [][SyncNext]_vars
SpecMapper == MapperCallInit /\ [][MapperNext]_vars
SpecEpg == EpgCallInit /\ [][EpgNext]_vars
SpecBoot == Init /\ [][BootNext]_vars
====
